---------------------------- MODULE Spec2Model ----------------------------
(***************************************************************************)
(* Sentiment Analyzer Pro (src/app_utils.py): the analysis pipeline of     *)
(* SentimentAnalysisApp as a state machine.                                *)
(*                                                                         *)
(* Numbers.  A compound score is an integer in units of 1e-8 (0.05 is      *)
(* 5000000).  A percentage is an integer in hundredths (33.33 is 3333) and *)
(* a summary's compound is an integer in ten-thousandths (0.3333 is 3333): *)
(* these are the grids round(x, 2) and round(x, 4) produce.                *)
(***************************************************************************)
EXTENDS Integers, Sequences, FiniteSets, TLC

VARIABLES
    \* ---- one call of calculate_sentiments (app_utils.py 991-1053)
    products,           \* the corpus argument: a sequence of [product, reviews]
    max_workers,        \* self.max_workers
    product_list,       \* the flattened product column
    review_list,        \* the flattened review column
    futures,            \* per batch: "pending" | "running" | "done" | "raised"
    future_result,      \* per batch: what batch_sentiment returned
    completed,          \* batches in the order as_completed yields them
    sentiment_scores,   \* [None] * len(batches), filled by index
    agg,                \* product -> counts
    calc_results,       \* the returned ResultSet
    calc_progress,      \* values handed to update_progress by the call
    lru,                \* the lru_cache of get_sentiment_score: text -> score
    invoked,            \* per text: calls of polarity_scores so far
    returned,           \* per text: the scores get_sentiment_score has returned
    worker,             \* per started batch: where batch_sentiment is in it
    calc_pc,            \* where the call is
    \* ---- SentimentAnalysisApp and its surroundings
    filename,           \* self.filename
    full_review_data,   \* self.full_review_data: NoList for None, or Some(table)
    results,            \* self.results
    analysis_running,   \* self.analysis_running
    btn_open,           \* state of the open button
    btn_analyze,        \* state of the analyze button
    btn_export,         \* state of the export button
    progress,           \* self.progress['value'], hundredths of a percent
    displayed,          \* what display_results last put in the results view
    signal,             \* the last message box shown to the user
    thr,                \* per run: the perform_analysis thread
    run_count,          \* threads started so far
    after_queue,        \* callbacks handed to root.after(0, ...), in order
    disk,               \* per path: whether the file exists, and its mtime
    cache,              \* the cache directory: file name -> JSON document
    delivered,          \* per run: the progress values the bar was given
    user_ops,           \* files opened, results cleared, files moved so far
    cache_writable,     \* whether a file can be created in the cache directory
    env_ops,            \* changes made to the files from outside so far
    saved               \* history: per cache file the run that wrote it last

\* the scorer's cache and the positions of the pool threads in their batches
memoVars == <<lru, invoked, returned, worker>>

calcVars == <<products, max_workers, product_list, review_list, futures,
              future_result, completed, sentiment_scores, agg, calc_results,
              calc_progress, calc_pc, memoVars>>

appVars == <<filename, full_review_data, results, analysis_running, btn_open,
             btn_analyze, btn_export, progress, displayed, signal, thr,
             run_count, after_queue, disk, cache, delivered, user_ops,
             cache_writable, env_ops, saved>>

\* what no handler but the cache write touches
cacheFrame == <<cache_writable, env_ops, saved>>

vars == <<calcVars, appVars>>

-----------------------------------------------------------------------------
(* Bounds of the model *)

\* longest review list of a product in the exhaustively enumerated corpora
MaxReviews == 3

\* longest short run of one text in the corpora that take several batches
MaxRun == 1

\* how many batch tasks may raise in one call
MaxRaises == 1

-----------------------------------------------------------------------------
(* Values *)

None == "None"

\* a list slot that holds None or a list: <<>> is None, <<x>> holds x
NoList == <<>>

Some(x) == <<x>>

EmptyMap == [k \in {} |-> 0]

\* the element of a set of one; {F(x) : x \in {e}} hands F the value of e
The(S) == CHOOSE x \in S : TRUE

Rep(t, n) == [i \in 1..n |-> t]

Abs(i) == IF i < 0 THEN -i ELSE i

Max2(a, b) == IF a >= b THEN a ELSE b

Min2(a, b) == IF a <= b THEN a ELSE b

RECURSIVE SeqsUpTo(_, _)
\* every sequence over S of length 1..n
SeqsUpTo(S, n) ==
    IF n = 0 THEN {}
    ELSE LET shorter == SeqsUpTo(S, n - 1)
             longest == IF n = 1 THEN {<<>>} ELSE {s \in shorter : Len(s) = n - 1}
         IN  shorter \cup {Append(s, t) : s \in longest, t \in S}

-----------------------------------------------------------------------------
(* The sentiment scorer *)

\* The lexicon analyzer is an external collaborator.  The model fixes a sample
\* of review texts and the compound score polarity_scores gives each: both
\* sides of the two thresholds, the thresholds themselves, and zero.
Analyzer ==
    [great    |-> 84020000,
     likeable |-> 5000001,
     edgeplus |-> 5000000,
     widget   |-> 0,
     edgeless |-> -5000000,
     dislike  |-> -5000001,
     terrible |-> -74300000]

Texts == DOMAIN Analyzer

\* lru_cache leaves the value of a call unchanged: the score of a text is the
\* analyzer's score of it
get_sentiment_score(text) == Analyzer[text]

\* self.max_workers = max(2, min(8, os.cpu_count() or 4)); cpu = 0 stands for None
MaxWorkersOf(cpu) == Max2(2, Min2(8, IF cpu = 0 THEN 4 ELSE cpu))

-----------------------------------------------------------------------------
(* calculate_sentiments, its pure parts *)

RECURSIVE FlattenProducts(_)
FlattenProducts(ps) ==
    IF ps = <<>> THEN <<>>
    ELSE Rep(ps[1].product, Len(ps[1].reviews)) \o FlattenProducts(Tail(ps))

RECURSIVE FlattenReviews(_)
FlattenReviews(ps) ==
    IF ps = <<>> THEN <<>>
    ELSE ps[1].reviews \o FlattenReviews(Tail(ps))

MIN_CHUNKSIZE == 1000

\* a variant that always takes the least size
ChunkSizeLeast(n, w) == MIN_CHUNKSIZE

\* chunksize = max(1000, len(review_list) // (self.max_workers * 2) or 1)
ChunkSize(n, w) ==
    LET q == n \div (w * 2)
    IN  Max2(MIN_CHUNKSIZE, IF q = 0 THEN 1 ELSE q)

\* a variant that leaves out a trailing batch shorter than chunksize
NumBatchesFloor(n, chunksize) == n \div chunksize

\* len(range(0, n, chunksize))
NumBatches(n, chunksize) == (n + chunksize - 1) \div chunksize

\* a variant whose slices end one review early
BatchDropLast(reviews, chunksize, idx) ==
    SubSeq(reviews, (idx - 1) * chunksize + 1, Min2(idx * chunksize, Len(reviews)) - 1)

\* batches[idx] for idx in 1..NumBatches: review_list[i:i+chunksize]
Batch(reviews, chunksize, idx) ==
    SubSeq(reviews, (idx - 1) * chunksize + 1, Min2(idx * chunksize, Len(reviews)))

batch_sentiment(batch) == [i \in 1..Len(batch) |-> get_sentiment_score(batch[i])]

RECURSIVE FlatScores(_)
\* [score for batch in sentiment_scores for score in batch]
FlatScores(scores) ==
    IF scores = <<>> THEN <<>> ELSE scores[1][1] \o FlatScores(Tail(scores))

POS_THRESHOLD == 5000000

NEG_THRESHOLD == -5000000

\* a variant that counts the thresholds themselves as positive and negative
ClassifyInclusive(compound) ==
    IF compound >= POS_THRESHOLD THEN "pos"
    ELSE IF compound <= NEG_THRESHOLD THEN "neg"
    ELSE "neu"

Classify(compound) ==
    IF compound > POS_THRESHOLD THEN "pos"
    ELSE IF compound < NEG_THRESHOLD THEN "neg"
    ELSE "neu"

ZeroCounts == [pos |-> 0, neg |-> 0, neu |-> 0, total |-> 0]

\* a variant of the loop's turn with no else branch: a neutral review is
\* counted in total only
AggStepNoNeutral(acc, product, compound) ==
    LET old == IF product \in DOMAIN acc THEN acc[product] ELSE ZeroCounts
        cls == Classify(compound)
        new == IF cls = "neu"
               THEN [old EXCEPT !.total = @ + 1]
               ELSE [old EXCEPT !.total = @ + 1, ![cls] = @ + 1]
    IN  [p \in DOMAIN acc \cup {product} |-> IF p = product THEN new ELSE acc[p]]

\* one turn of the aggregation loop; agg is a defaultdict
AggStep(acc, product, compound) ==
    LET old == IF product \in DOMAIN acc THEN acc[product] ELSE ZeroCounts
        cls == Classify(compound)
        new == [old EXCEPT !.total = @ + 1, ![cls] = @ + 1]
    IN  [p \in DOMAIN acc \cup {product} |-> IF p = product THEN new ELSE acc[p]]

RECURSIVE AggRange(_, _, _, _, _)
\* the loop over zip(product_list, flat_scores)[lo..hi], left to right: the
\* turns lo..mid, then the turns mid+1..hi on what they left (the test on
\* DOMAIN left only makes the evaluation finish the first half before it
\* starts the second)
AggRange(pl, fs, lo, hi, acc) ==
    IF lo > hi THEN acc
    ELSE IF lo = hi THEN AggStep(acc, pl[lo], fs[lo])
    ELSE LET mid  == (lo + hi) \div 2
             left == AggRange(pl, fs, lo, mid, acc)
         IN  IF DOMAIN left # {}
             THEN AggRange(pl, fs, mid + 1, hi, left)
             ELSE AggRange(pl, fs, mid + 1, hi, EmptyMap)

\* zip stops at the shorter of the two
Aggregate(pl, fs) == AggRange(pl, fs, 1, Min2(Len(pl), Len(fs)), EmptyMap)

\* the nearest integer to num / den (den > 0), a tie going to the even one.
\* That is Python's round on the doubles the code computes whenever total is
\* not a multiple of 160 (for those totals the double can sit one ulp off a
\* decimal tie); the corpora of the model keep totals off the multiples of 160.
RoundHalfEven(num, den) ==
    LET a == Abs(num)
        q == a \div den
        r == a % den
        m == IF 2 * r > den \/ (2 * r = den /\ q % 2 = 1) THEN q + 1 ELSE q
    IN  IF num < 0 THEN -m ELSE m

\* a variant that cuts the share off after 2 decimals
Round2PctFloor(count, total) == (10000 * count) \div total

\* round(count / total * 100, 2), in hundredths
Round2Pct(count, total) == RoundHalfEven(10000 * count, total)

\* round((pos - neg) / total, 4), in ten-thousandths
Round4(diff, total) == RoundHalfEven(10000 * diff, total)

Summary(counts) ==
    IF counts.total = 0
    THEN [pos |-> 0, neg |-> 0, neu |-> 0, total |-> 0, compound |-> 0]
    ELSE [pos      |-> Round2Pct(counts.pos, counts.total),
          neg      |-> Round2Pct(counts.neg, counts.total),
          neu      |-> Round2Pct(counts.neu, counts.total),
          total    |-> counts.total,
          compound |-> Round4(counts.pos - counts.neg, counts.total)]

Finalize(counts) == [p \in DOMAIN counts |-> Summary(counts[p])]

\* what calculate_sentiments returns when no batch raises: every future's
\* result stored at its index, whatever the order of completion.  Each stage
\* is the one element of a set, so that the next stage gets it as a value.
calculate_sentiments(ps, w) ==
    LET pls  == {FlattenProducts(ps)}
        fss  == {FlatScores([k \in 1..NumBatches(Len(rl), ChunkSize(Len(rl), w)) |->
                               Some(batch_sentiment(Batch(rl, ChunkSize(Len(rl), w), k)))]) :
                    rl \in {FlattenReviews(ps)}}
        aggs == {Aggregate(pl, fs) : pl \in pls, fs \in fss}
    IN  CHOOSE summary \in {Finalize(counts) : counts \in aggs} : TRUE

RECURSIVE AnalyzeLoop(_, _, _, _)
\* the review loop of _analyze_product from review i on; raising is the set of
\* positions at which get_sentiment_score raises
AnalyzeLoop(reviews, raising, i, counts) ==
    IF i > Len(reviews) THEN counts
    ELSE AnalyzeLoop(reviews, raising, i + 1,
            IF i \in raising
            THEN [counts EXCEPT !.total = @ - 1]
            ELSE [counts EXCEPT ![Classify(get_sentiment_score(reviews[i]))] = @ + 1])

\* _analyze_product(product, reviews), the sequential scorer
analyze_product(reviews, raising) ==
    LET counts == AnalyzeLoop(reviews, raising, 1,
                              [pos |-> 0, neg |-> 0, neu |-> 0, total |-> Len(reviews)])
    IN  IF counts.total <= 0
        THEN [pos |-> 0, neg |-> 0, neu |-> 0, total |-> 0, compound |-> 0]
        ELSE [pos      |-> Round2Pct(counts.pos, counts.total),
              neg      |-> Round2Pct(counts.neg, counts.total),
              neu      |-> Round2Pct(counts.neu, counts.total),
              total    |-> counts.total,
              compound |-> Round4(counts.pos - counts.neg, counts.total)]

-----------------------------------------------------------------------------
(* Strings and table cells *)

\* a missing cell (pandas NaN)
NaN == "<NaN>"

\* str(x) of a cell
StrOf(cell) == IF cell = NaN THEN "nan" ELSE cell

\* the strings of the model that strip() shortens, with what it leaves
StripOf ==
    (" Widget " :> "Widget") @@ (" great " :> "great") @@ ("   " :> "")

Strip(str) == IF str \in DOMAIN StripOf THEN StripOf[str] ELSE str

\* len() of the strings of the model that are not review texts of Texts; a
\* review text of Texts stands for a review of more than 5 characters
ShortLen ==
    ("" :> 0) @@ ("ok" :> 2) @@ ("nan" :> 3) @@ ("so-so" :> 5)

LONG_TEXT == 6

StrLen(str) == IF str \in DOMAIN ShortLen THEN ShortLen[str] ELSE LONG_TEXT

\* str.lower() of the header names of the model
LowerOf ==
    ("Review" :> "review") @@ ("Product" :> "product") @@ ("Title" :> "title")
    @@ ("Rating" :> "rating") @@ ("Body" :> "body") @@ ("Item" :> "item")
    @@ ("TEXT" :> "text") @@ ("Product Name" :> "product name")

Lower(name) == IF name \in DOMAIN LowerOf THEN LowerOf[name] ELSE name

\* the product keys of the model in the order sorted() puts them
KeyOrder == <<"   ", " Widget ", "Gadget", "Widget", "nan", "widget">>

-----------------------------------------------------------------------------
(* The column resolver and the corpus builder *)

\* lower_names = {str(name).lower(): name for name in iterable_of_names}: of
\* two headers that lower to the same key the later one stays
LowerNames(names) ==
    [l \in {Lower(names[i]) : i \in 1..Len(names)} |->
        names[CHOOSE i \in 1..Len(names) :
                 /\ Lower(names[i]) = l
                 /\ \A j \in 1..Len(names) : Lower(names[j]) = l => j <= i]]

RECURSIVE FirstMatch(_, _, _)
FirstMatch(lower_names, potential_names, i) ==
    IF i > Len(potential_names) THEN None
    ELSE IF Lower(potential_names[i]) \in DOMAIN lower_names
    THEN lower_names[Lower(potential_names[i])]
    ELSE FirstMatch(lower_names, potential_names, i + 1)

\* a resolver that takes the first header, in header order, that any candidate
\* names
find_column_name_by_header(iterable_of_names, potential_names) ==
    LET hits == {j \in 1..Len(iterable_of_names) :
                    \E i \in 1..Len(potential_names) :
                        Lower(potential_names[i]) = Lower(iterable_of_names[j])}
    IN  IF hits = {} THEN None
        ELSE iterable_of_names[CHOOSE j \in hits : \A k \in hits : j <= k]

find_column_name(iterable_of_names, potential_names) ==
    The({FirstMatch(lower_names, potential_names, 1) :
            lower_names \in {LowerNames(iterable_of_names)}})

\* columns[k] if len(columns) > k else '' (k counted from 0)
ColumnOrEmpty(columns, k) == IF Len(columns) > k THEN columns[k + 1] ELSE ""

ReviewColumn(columns) ==
    find_column_name(columns, <<"review", "review text", "text", ColumnOrEmpty(columns, 1)>>)

ProductColumn(columns) ==
    find_column_name(columns, <<"product", "product name", ColumnOrEmpty(columns, 3)>>)

\* not review_col or not product_col
ColumnsMissing(columns) ==
    \/ ReviewColumn(columns) \in {None, ""}
    \/ ProductColumn(columns) \in {None, ""}

ColumnIndex(columns, name) == CHOOSE i \in 1..Len(columns) : columns[i] = name

\* A table is [columns, rows]; rows is a sequence of runs [cells, n]: n
\* consecutive rows with the same cells, cells[i] under columns[i].
RECURSIVE TotalRows(_)
TotalRows(rows) == IF rows = <<>> THEN 0 ELSE rows[1].n + TotalRows(Tail(rows))

\* a variant that keeps the text as it stands in the cell
KeptReviewUnstripped(cell) ==
    LET text == Strip(StrOf(cell))
    IN  IF text # "" /\ StrLen(text) > 5 THEN StrOf(cell) ELSE ""

\* a review cell as the builder keeps it: stripped, or "" when it is dropped
KeptReview(cell) ==
    LET text == Strip(StrOf(cell))
    IN  IF text # "" /\ StrLen(text) > 5 THEN text ELSE ""

RECURSIVE GroupReviews(_, _, _, _)
\* group[review_col].dropna(), stripped and filtered, of the rows whose product
\* cell is key
GroupReviews(rows, pcol, rcol, key) ==
    IF rows = <<>> THEN <<>>
    ELSE LET run  == rows[1]
             rest == GroupReviews(Tail(rows), pcol, rcol, key)
         IN  IF run.cells[pcol] = key /\ run.cells[rcol] # NaN
                /\ KeptReview(run.cells[rcol]) # ""
             THEN Rep(KeptReview(run.cells[rcol]), run.n) \o rest
             ELSE rest

RECURSIVE GroupsInOrder(_, _, _, _, _)
\* the loop over df.groupby(product_col): the keys present, NaN left out, in
\* sorted order
GroupsInOrder(rows, pcol, rcol, keys, i) ==
    IF i > Len(KeyOrder) THEN <<>>
    ELSE LET key     == KeyOrder[i]
             reviews == GroupReviews(rows, pcol, rcol, key)
             rest    == GroupsInOrder(rows, pcol, rcol, keys, i + 1)
         IN  IF key \in keys /\ reviews # <<>>
             THEN <<[product |-> StrOf(key), reviews |-> reviews]>> \o rest
             ELSE rest

\* lines 892-896 and 975-979: the corpus of a whole table
GroupByProduct(table) ==
    The({GroupsInOrder(table.rows, pcol, rcol,
                       {table.rows[i].cells[pcol] : i \in 1..Len(table.rows)} \ {NaN}, 1) :
            pcol \in {ColumnIndex(table.columns, ProductColumn(table.columns))},
            rcol \in {ColumnIndex(table.columns, ReviewColumn(table.columns))}})

\* products[key].append(text), n times; a new key goes to the end
AppendReviews(prods, key, text, n) ==
    IF \E i \in 1..Len(prods) : prods[i].product = key
    THEN [i \in 1..Len(prods) |->
             IF prods[i].product = key
             THEN [prods[i] EXCEPT !.reviews = @ \o Rep(text, n)]
             ELSE prods[i]]
    ELSE Append(prods, [product |-> key, reviews |-> Rep(text, n)])

\* lines 952-957: one row of a chunk (a run of n equal rows)
RowStep(prods, run, pcol, rcol) ==
    LET review_text  == Strip(StrOf(run.cells[rcol]))
        product_name == Strip(StrOf(run.cells[pcol]))
    IN  IF product_name # "" /\ review_text # "" /\ StrLen(review_text) > 5
        THEN AppendReviews(prods, product_name, review_text, run.n)
        ELSE prods

RECURSIVE RowLoop(_, _, _, _)
\* lines 950-959: the row loop of one chunk
RowLoop(rows, pcol, rcol, prods) ==
    IF rows = <<>> THEN prods
    ELSE The({RowLoop(Tail(rows), pcol, rcol, next) :
                 next \in {RowStep(prods, rows[1], pcol, rcol)}})

CHUNK_SIZE == 100000

SIZE_THRESHOLD_MB == 100

RECURSIVE ClipRows(_, _, _, _)
\* the rows numbered lo..hi of a run-length list whose first row is number at
ClipRows(rows, at, lo, hi) ==
    IF rows = <<>> THEN <<>>
    ELSE LET run  == rows[1]
             from == Max2(at, lo)
             to   == Min2(at + run.n - 1, hi)
             rest == ClipRows(Tail(rows), at + run.n, lo, hi)
         IN  IF from <= to THEN <<[run EXCEPT !.n = to - from + 1]>> \o rest ELSE rest

\* the k-th chunk pd.read_csv(chunksize=chunk_size) yields
ChunkRows(table, k) == ClipRows(table.rows, 1, (k - 1) * CHUNK_SIZE + 1, k * CHUNK_SIZE)

NumChunks(table) == (TotalRows(table.rows) + CHUNK_SIZE - 1) \div CHUNK_SIZE

\* a variant without the cap at 40
ChunkProgressUncapped(chunks_processed, total_rows) ==
    500 + (chunks_processed * CHUNK_SIZE * 3500) \div total_rows

\* min(40, 5 + (chunks_processed * chunk_size / total_rows) * 35), in
\* hundredths of a percent, the digits after them cut off
ChunkProgress(chunks_processed, total_rows) ==
    Min2(4000, 500 + (chunks_processed * CHUNK_SIZE * 3500) \div total_rows)

\* min_reviews = 1: {k: v for k, v in products.items() if len(v) >= min_reviews}
FilterMinReviews(prods) == SelectSeq(prods, LAMBDA e : Len(e.reviews) >= 1)

\* the corpus as a mapping, for comparing corpora built in different key orders
CorpusMap(prods) ==
    [p \in {prods[i].product : i \in 1..Len(prods)} |->
        prods[CHOOSE i \in 1..Len(prods) : prods[i].product = p].reviews]

\* no text scored yet, no pool thread started
MemoUnused ==
    /\ lru = EmptyMap
    /\ invoked = [t \in Texts |-> 0]
    /\ returned = [t \in Texts |-> {}]
    /\ worker = EmptyMap

-----------------------------------------------------------------------------
(* calculate_sentiments as a process: the caller thread and the pool *)

BatchIds == 1..Len(futures)

Running == {k \in BatchIds : futures[k] = "running"}

Pending == {k \in BatchIds : futures[k] = "pending"}

Finished == {k \in BatchIds : futures[k] \in {"done", "raised"}}

Raised == {k \in BatchIds : futures[k] = "raised"}

Collected == {completed[i] : i \in 1..Len(completed)}

\* a variant that appends the results in the order of completion
StoreScoresByArrival(scores, idx, arrival, result) == [scores EXCEPT ![arrival] = result]

\* sentiment_scores[idx] = future.result()
StoreScores(scores, idx, arrival, result) == [scores EXCEPT ![idx] = result]

\* lines 996-1017: flatten, size the batches, submit them all
CalcSubmit ==
    /\ calc_pc = "call"
    /\ product_list' = FlattenProducts(products)
    /\ review_list' = FlattenReviews(products)
    /\ LET n == Len(review_list')
           nb == NumBatches(n, ChunkSize(n, max_workers))
       IN  /\ futures' = Rep("pending", nb)
           /\ future_result' = Rep(NoList, nb)
           /\ sentiment_scores' = Rep(NoList, nb)
    /\ completed' = <<>>
    /\ calc_pc' = "collect"
    /\ UNCHANGED <<products, max_workers, agg, calc_results, calc_progress>>
    /\ UNCHANGED memoVars
    /\ UNCHANGED appVars

\* a pool thread takes the next queued batch; at most max_workers threads
WorkerStart(k) ==
    /\ calc_pc \in {"collect", "unwind"}
    /\ k \in Pending
    /\ \A j \in Pending : k <= j
    /\ Cardinality(Running) < max_workers
    /\ futures' = [futures EXCEPT ![k] = "running"]
    /\ UNCHANGED <<products, max_workers, product_list, review_list, future_result,
                   completed, sentiment_scores, agg, calc_results, calc_progress,
                   calc_pc>>
    /\ UNCHANGED memoVars
    /\ UNCHANGED appVars

\* batch_sentiment(batch) returns the scores of its batch
WorkerReturn(k) ==
    /\ calc_pc \in {"collect", "unwind"}
    /\ k \in Running
    /\ futures' = [futures EXCEPT ![k] = "done"]
    /\ future_result' =
          [future_result EXCEPT ![k] =
              Some(batch_sentiment(Batch(review_list,
                                         ChunkSize(Len(review_list), max_workers), k)))]
    /\ UNCHANGED <<products, max_workers, product_list, review_list, completed,
                   sentiment_scores, agg, calc_results, calc_progress, calc_pc>>
    /\ UNCHANGED memoVars
    /\ UNCHANGED appVars

\* get_sentiment_score raises inside batch_sentiment: the future holds the exception
WorkerRaise(k) ==
    /\ calc_pc \in {"collect", "unwind"}
    /\ k \in Running
    /\ Cardinality(Raised) < MaxRaises
    /\ futures' = [futures EXCEPT ![k] = "raised"]
    /\ UNCHANGED <<products, max_workers, product_list, review_list, future_result,
                   completed, sentiment_scores, agg, calc_results, calc_progress,
                   calc_pc>>
    /\ UNCHANGED memoVars
    /\ UNCHANGED appVars

\* lines 1018-1020: as_completed yields a finished future; future.result()
\* returns the batch's scores or re-raises the batch's exception
Collect(k) ==
    /\ calc_pc = "collect"
    /\ k \in Finished \ Collected
    /\ completed' = Append(completed, k)
    /\ IF futures[k] = "done"
       THEN /\ sentiment_scores' =
                  StoreScores(sentiment_scores, k, Len(completed) + 1, future_result[k])
            /\ calc_pc' = calc_pc
       ELSE /\ sentiment_scores' = sentiment_scores
            /\ calc_pc' = "unwind"
    /\ UNCHANGED <<products, max_workers, product_list, review_list, futures,
                   future_result, agg, calc_results, calc_progress>>
    /\ UNCHANGED memoVars
    /\ UNCHANGED appVars

\* the exception leaves the with block: shutdown(wait=True) waits for every
\* submitted batch, then the exception leaves calculate_sentiments
CalcRaise ==
    /\ calc_pc = "unwind"
    /\ Finished = BatchIds
    /\ calc_pc' = "raised"
    /\ UNCHANGED <<products, max_workers, product_list, review_list, futures,
                   future_result, completed, sentiment_scores, agg, calc_results,
                   calc_progress>>
    /\ UNCHANGED memoVars
    /\ UNCHANGED appVars

\* lines 1022-1053: every batch collected; flatten, aggregate, summarise,
\* update_progress(100), return
CalcReturn ==
    /\ calc_pc = "collect"
    /\ Collected = BatchIds
    /\ agg' = Aggregate(product_list, FlatScores(sentiment_scores))
    /\ calc_results' = Finalize(agg')
    /\ calc_progress' = Append(calc_progress, 10000)
    /\ calc_pc' = "returned"
    /\ UNCHANGED <<products, max_workers, product_list, review_list, futures,
                   future_result, completed, sentiment_scores>>
    /\ UNCHANGED memoVars
    /\ UNCHANGED appVars

NextCalc ==
    \/ CalcSubmit
    \/ \E k \in BatchIds : WorkerStart(k)
    \/ \E k \in BatchIds : WorkerReturn(k)
    \/ \E k \in BatchIds : WorkerRaise(k)
    \/ \E k \in BatchIds : Collect(k)
    \/ CalcRaise
    \/ CalcReturn

-----------------------------------------------------------------------------
(* The files of the model and the application as constructed *)

\* threads perform_analysis is started on in one behaviour
MaxRuns == 2

\* files opened, results cleared and files moved away in one behaviour
MaxUserOps == 2

\* changes made to the files from outside in one behaviour
MaxEnvOps == 1

Paths == {"/data/reviews.csv", "/data/big.csv", "/data/notes.csv", "/data/short.csv"}

\* files that share a base name, or differ in it by a dot only
CachePaths == {"/data/report.v2.csv", "/backup/report.v2.csv", "/data/report_v2.csv"}

Run(cells, n) == [cells |-> cells, n |-> n]

\* what pd.read_csv finds in each file
FileTable ==
    ("/data/reviews.csv" :>
        [columns |-> <<"Title", "Review", "Rating", "Product">>,
         rows    |-> << Run(<<"-", " great ", "-", "Widget">>, 1),
                        Run(<<"-", "ok", "-", "Gadget">>, 1),
                        Run(<<"-", "widget", "-", " Widget ">>, 1),
                        Run(<<"-", "terrible", "-", "Widget">>, 1),
                        Run(<<"-", NaN, "-", "widget">>, 1),
                        Run(<<"-", "great", "-", NaN>>, 1) >>])
    @@ ("/data/big.csv" :>
        [columns |-> <<"Product Name", "TEXT">>,
         rows    |-> << Run(<<"Widget", "great">>, 1),
                        Run(<<"Widget", "so-so">>, 249997),
                        Run(<<NaN, "terrible">>, 1),
                        Run(<<" Widget ", "great">>, 1) >>])
    @@ ("/data/notes.csv" :>
        [columns |-> <<"Title", "Body">>,
         rows    |-> << Run(<<"-", "great">>, 2) >>])
    @@ ("/data/short.csv" :>
        [columns |-> <<"Product", "Review">>,
         rows    |-> << Run(<<"Widget", "ok">>, 1),
                        Run(<<"Gadget", "   ">>, 1),
                        Run(<<"Gadget", NaN>>, 1) >>])
    @@ ("/data/report.v2.csv" :>
        [columns |-> <<"Product", "Review">>,
         rows    |-> << Run(<<"Widget", "great">>, 1),
                        Run(<<"Widget", "widget">>, 10) >>])
    @@ ("/backup/report.v2.csv" :>
        [columns |-> <<"Product", "Review">>,
         rows    |-> << Run(<<"Widget", "terrible">>, 1),
                        Run(<<"Gadget", "great">>, 1) >>])
    @@ ("/data/report_v2.csv" :>
        [columns |-> <<"Product", "Review">>,
         rows    |-> << Run(<<"Gadget", "widget">>, 1),
                        Run(<<"Gadget", "terrible">>, 1) >>])

\* os.path.getsize(path) / (1024 * 1024), rounded down
FileSizeMB ==
    ("/data/reviews.csv" :> 0) @@ ("/data/big.csv" :> 150)
    @@ ("/data/notes.csv" :> 0) @@ ("/data/short.csv" :> 0)
    @@ ("/data/report.v2.csv" :> 0) @@ ("/backup/report.v2.csv" :> 0)
    @@ ("/data/report_v2.csv" :> 150)

\* the files as they are when the application starts; a modification time is
\* kept in tenths of a second
DiskOf(paths) ==
    [p \in paths |-> [exists |-> TRUE, mtime |-> 10, table |-> FileTable[p],
                      size_mb |-> FileSizeMB[p]]]

\* os.path.basename(path), as its maximal runs of letters and digits and the
\* separators between them
basename ==
    ("/data/reviews.csv" :> <<"reviews", ".", "csv">>)
    @@ ("/data/big.csv" :> <<"big", ".", "csv">>)
    @@ ("/data/notes.csv" :> <<"notes", ".", "csv">>)
    @@ ("/data/short.csv" :> <<"short", ".", "csv">>)
    @@ ("/backup/report.v2.csv" :> <<"report", ".", "v2", ".", "csv">>)
    @@ ("/data/report.v2.csv" :> <<"report", ".", "v2", ".", "csv">>)
    @@ ("/data/report_v2.csv" :> <<"report", "_", "v2", ".", "csv">>)

\* a variant that leaves the dots of the name alone
ReplaceDotsKept(name) == name

\* base_name.replace('.', '_')
ReplaceDots(name) == [i \in 1..Len(name) |-> IF name[i] = "." THEN "_" ELSE name[i]]

\* int(mod_time) of a modification time kept in tenths of a second
IntOf(mod_time) == mod_time \div 10

\* a variant that names the cache file after the source file alone
get_cache_filename_untimed(path, mod_time) ==
    ReplaceDots(basename[path]) \o <<".", "json">>

\* f"{base_name.replace('.', '_')}_{int(mod_time)}.json" in CACHE_DIR
get_cache_filename(path, mod_time) ==
    ReplaceDots(basename[path]) \o <<"_", ToString(IntOf(mod_time)), ".", "json">>

RECURSIVE Pow10(_)
Pow10(n) == IF n = 0 THEN 1 ELSE 10 * Pow10(n - 1)

\* n written in `width` decimal places
DigitsOf(n, width) == [i \in 1..width |-> (n \div Pow10(width - i)) % 10]

\* the places of a fraction without its trailing zeros, one place at least
RECURSIVE StripZeros(_)
StripZeros(ds) ==
    IF Len(ds) > 1 /\ ds[Len(ds)] = 0
    THEN StripZeros(SubSeq(ds, 1, Len(ds) - 1))
    ELSE ds

\* the places of a fraction without its leading zeros
RECURSIVE StripLeadingZeros(_)
StripLeadingZeros(ds) ==
    IF Len(ds) > 1 /\ ds[1] = 0 THEN StripLeadingZeros(Tail(ds)) ELSE ds

\* a variant that writes the fraction as a number of its own: 0.05 as 0.5
FloatReprUnpadded(v, places) ==
    [neg  |-> v < 0,
     int  |-> Abs(v) \div Pow10(places),
     frac |-> StripLeadingZeros(StripZeros(DigitsOf(Abs(v) % Pow10(places), places)))]

\* float.__repr__, the literal json.dump writes for a float: v is the float
\* in units of 10^-places
FloatRepr(v, places) ==
    [neg  |-> v < 0,
     int  |-> Abs(v) \div Pow10(places),
     frac |-> StripZeros(DigitsOf(Abs(v) % Pow10(places), places))]

RECURSIVE FracValue(_, _)
FracValue(ds, places) ==
    IF ds = <<>> \/ places = 0
    THEN 0
    ELSE ds[1] * Pow10(places - 1) + FracValue(Tail(ds), places - 1)

\* float(literal), what json.load makes of a number with a fraction
FloatOf(lit, places) ==
    LET a == lit.int * Pow10(places) + FracValue(lit.frac, places)
    IN  IF lit.neg THEN -a ELSE a

\* the decimal places the model keeps of each float of a summary
Places == [pos |-> 2, neg |-> 2, neu |-> 2, compound |-> 4]

\* json.dump of a ResultSet: a JSON object, the set of its members; a summary
\* becomes an object of number literals
JsonDump(rs) ==
    {<<p, [f \in DOMAIN rs[p] |->
              IF f \in DOMAIN Places THEN FloatRepr(rs[p][f], Places[f]) ELSE rs[p][f]]>> :
        p \in DOMAIN rs}

\* json.load of a document: whatever members and keys it has
JsonLoad(doc) ==
    [p \in {m[1] : m \in doc} |->
        LET o == (CHOOSE m \in doc : m[1] = p)[2]
        IN  [f \in DOMAIN o |->
                IF f \in DOMAIN Places THEN FloatOf(o[f], Places[f]) ELSE o[f]]]

\* the keys display_results and create_summary_statistics read of each entry
SummaryKeys == {"pos", "neg", "neu", "total"}

\* display_results(results) runs through without a KeyError
Displayable(rs) == \A p \in DOMAIN rs : SummaryKeys \subseteq DOMAIN rs[p]

MapSet(map, key, value) ==
    [x \in DOMAIN map \cup {key} |-> IF x = key THEN value ELSE map[x]]

RunIds == 1..MaxRuns

\* a thread that has not been started
NoThread == [pc |-> "idle", path |-> None, products |-> <<>>, chunks |-> 0, err |-> None]

\* __init__ and setup_ui: nothing loaded, only the open button enabled
ConstructedOn(paths) ==
    /\ filename = None
    /\ full_review_data = NoList
    /\ results = EmptyMap
    /\ analysis_running = FALSE
    /\ btn_open = "normal"
    /\ btn_analyze = "disabled"
    /\ btn_export = "disabled"
    /\ progress = 0
    /\ displayed = EmptyMap
    /\ signal = "none"
    /\ thr = [r \in RunIds |-> NoThread]
    /\ run_count = 0
    /\ after_queue = <<>>
    /\ disk = DiskOf(paths)
    /\ cache = EmptyMap
    /\ delivered = [r \in RunIds |-> <<>>]
    /\ user_ops = 0
    /\ cache_writable = TRUE
    /\ env_ops = 0
    /\ saved = EmptyMap

Constructed == ConstructedOn(Paths)

-----------------------------------------------------------------------------
(* Inputs of calculate_sentiments *)

ProductNames == <<"Widget", "Gadget">>

\* os.cpu_count() on the hosts of the model; 0 stands for None
CpuCounts == {0, 1, 16}

\* every corpus of one product with 1..MaxReviews reviews, and of two products
\* with MaxReviews reviews between them
SmallCorpora ==
    LET lists == SeqsUpTo(Texts, MaxReviews)
    IN  {<<[product |-> ProductNames[1], reviews |-> r]>> : r \in lists}
        \cup {<<[product |-> ProductNames[1], reviews |-> r1],
                [product |-> ProductNames[2], reviews |-> r2]>> :
                  <<r1, r2>> \in {rr \in lists \X lists :
                                    Len(rr[1]) + Len(rr[2]) <= MaxReviews}}

CalcStart(corpora, cpus) ==
    /\ products \in corpora
    /\ max_workers \in {MaxWorkersOf(c) : c \in cpus}
    /\ product_list = <<>>
    /\ review_list = <<>>
    /\ futures = <<>>
    /\ future_result = <<>>
    /\ completed = <<>>
    /\ sentiment_scores = <<>>
    /\ agg = EmptyMap
    /\ calc_results = EmptyMap
    /\ calc_progress = <<>>
    /\ MemoUnused
    /\ calc_pc = "call"
    /\ Constructed

\* corpora that take several batches: the first product's reviews are a run
\* of one text followed by a run of another, the second product's (when there
\* is one) a run of a third; a run is 1..MaxRun or MIN_CHUNKSIZE reviews long
BatchTexts == {"great", "terrible"}

RunLengths == (1..MaxRun) \cup {MIN_CHUNKSIZE}

LargeCorpora ==
    LET first == {Rep(t1, a) \o Rep(t2, b) :
                     t1 \in BatchTexts, a \in RunLengths,
                     t2 \in BatchTexts, b \in RunLengths \cup {0}}
        second == {Rep(t3, c) : t3 \in BatchTexts, c \in RunLengths}
    IN  {<<[product |-> ProductNames[1], reviews |-> r]>> : r \in first}
        \cup {<<[product |-> ProductNames[1], reviews |-> r1],
                [product |-> ProductNames[2], reviews |-> r2]>> :
                  r1 \in first, r2 \in second}

InitAgg == CalcStart(SmallCorpora, CpuCounts)

InitBatch == CalcStart(LargeCorpora, CpuCounts \ {0})

SpecBatch == InitBatch /\ [][NextCalc]_vars

SpecAgg == InitAgg /\ [][NextCalc]_vars

\* the least run of reviews that makes a batch of max_workers = 2 longer than
\* MIN_CHUNKSIZE
HugeRun == 4 * MIN_CHUNKSIZE + 4

\* the corpora without a review, and corpora of one product whose batches are
\* len(review_list) // (max_workers * 2) long when max_workers is 2
EdgeCorpora ==
    {<<>>, <<[product |-> ProductNames[1], reviews |-> <<>>]>>}
    \cup {<<[product |-> ProductNames[1],
             reviews |-> Rep("great", HugeRun) \o Rep("terrible", b)]>> : b \in 0..MaxRun}

InitPartition == CalcStart(LargeCorpora \cup EdgeCorpora, CpuCounts \ {0})

SpecPartition == InitPartition /\ [][NextCalc]_vars

-----------------------------------------------------------------------------
(* get_sentiment_score under lru_cache, called from the pool threads *)

\* batch_sentiment of batch k before its first call
AtStart == [pc |-> "lookup", at |-> 1, result |-> None]

State(k) == IF k \in DOMAIN worker THEN worker[k] ELSE AtStart

Moved(k, state) == [j \in DOMAIN worker \cup {k} |-> IF j = k THEN state ELSE worker[j]]

MyBatch(k) == Batch(review_list, ChunkSize(Len(review_list), max_workers), k)

\* the place in the batch of the next text other than the one at place at;
\* the calls for the equal texts in between find what the call at place at
\* found or stored
NextText(batch, at) ==
    LET later == {j \in (at + 1)..Len(batch) : batch[j] # batch[at]}
    IN  IF later = {} THEN Len(batch) + 1 ELSE CHOOSE j \in later : \A i \in later : j <= i

\* a store that overwrites what another thread has stored meanwhile
StoreOver(cached, text, result) ==
    [t \in DOMAIN cached \cup {text} |-> IF t = text THEN result ELSE cached[t]]

\* the wrapper after the call: the key another thread has stored meanwhile
\* is left as it is
StoreIfAbsent(cached, text, result) ==
    IF text \in DOMAIN cached THEN cached ELSE StoreOver(cached, text, result)

\* the wrapper's look into the cache: a hit returns the cached score, a miss
\* goes on to call the function
LruLookup(k) ==
    /\ calc_pc \in {"collect", "unwind"}
    /\ k \in Running
    /\ State(k).pc = "lookup"
    /\ State(k).at <= Len(MyBatch(k))
    /\ LET batch == MyBatch(k)
           text  == batch[State(k).at]
       IN  IF text \in DOMAIN lru
           THEN /\ returned' = [returned EXCEPT ![text] = @ \cup {lru[text]}]
                /\ worker' = Moved(k, [AtStart EXCEPT !.at = NextText(batch, State(k).at)])
           ELSE /\ returned' = returned
                /\ worker' = Moved(k, [State(k) EXCEPT !.pc = "call"])
    /\ UNCHANGED <<lru, invoked>>
    /\ UNCHANGED <<products, max_workers, product_list, review_list, futures,
                   future_result, completed, sentiment_scores, agg, calc_results,
                   calc_progress, calc_pc>>
    /\ UNCHANGED appVars

\* lines 53-56 after a miss: the analyzer scores the text
PolarityScores(k) ==
    /\ calc_pc \in {"collect", "unwind"}
    /\ k \in Running
    /\ State(k).pc = "call"
    /\ LET text == MyBatch(k)[State(k).at]
       IN  /\ invoked' = [invoked EXCEPT ![text] = @ + 1]
           /\ worker' = Moved(k, [State(k) EXCEPT !.pc = "store", !.result = Analyzer[text]])
    /\ UNCHANGED <<lru, returned>>
    /\ UNCHANGED <<products, max_workers, product_list, review_list, futures,
                   future_result, completed, sentiment_scores, agg, calc_results,
                   calc_progress, calc_pc>>
    /\ UNCHANGED appVars

\* the wrapper after the call: the score is cached and returned
LruStore(k) ==
    /\ calc_pc \in {"collect", "unwind"}
    /\ k \in Running
    /\ State(k).pc = "store"
    /\ LET batch == MyBatch(k)
           text  == batch[State(k).at]
       IN  /\ lru' = StoreIfAbsent(lru, text, State(k).result)
           /\ returned' = [returned EXCEPT ![text] = @ \cup {State(k).result}]
           /\ worker' = Moved(k, [AtStart EXCEPT !.at = NextText(batch, State(k).at)])
    /\ UNCHANGED invoked
    /\ UNCHANGED <<products, max_workers, product_list, review_list, futures,
                   future_result, completed, sentiment_scores, agg, calc_results,
                   calc_progress, calc_pc>>
    /\ UNCHANGED appVars

\* batch_sentiment returns after the call for the batch's last text
WorkerFinish(k) ==
    /\ State(k).at > Len(MyBatch(k))
    /\ WorkerReturn(k)

NextMemo ==
    \/ CalcSubmit
    \/ \E k \in BatchIds : WorkerStart(k)
    \/ \E k \in BatchIds : LruLookup(k)
    \/ \E k \in BatchIds : PolarityScores(k)
    \/ \E k \in BatchIds : LruStore(k)
    \/ \E k \in BatchIds : WorkerFinish(k)
    \/ \E k \in BatchIds : Collect(k)
    \/ CalcReturn

SpecMemo == InitBatch /\ [][NextMemo]_vars

-----------------------------------------------------------------------------
(* The application: the handlers of the UI thread *)

Callback(kind, run, arg) == [kind |-> kind, run |-> run, arg |-> arg]

\* a variant of the guard that never finds a run in progress
NeverRunning(running) == FALSE

\* if self.analysis_running
AlreadyRunning(running) == running

\* lines 819-833
start_analysis ==
    IF AlreadyRunning(analysis_running)
    THEN /\ signal' = "already_running"
         /\ UNCHANGED <<filename, full_review_data, results, analysis_running,
                        btn_open, btn_analyze, btn_export, progress, displayed,
                        thr, run_count, after_queue, disk, cache, delivered, user_ops>>
         /\ UNCHANGED cacheFrame
         /\ UNCHANGED calcVars
    ELSE /\ run_count < MaxRuns
         /\ analysis_running' = TRUE
         /\ btn_analyze' = "disabled"
         /\ btn_open' = "disabled"
         /\ btn_export' = "disabled"
         /\ progress' = 0
         /\ run_count' = run_count + 1
         /\ thr' = [thr EXCEPT ![run_count + 1] = [NoThread EXCEPT !.pc = "check"]]
         /\ delivered' = [delivered EXCEPT ![run_count + 1] =
                             <<[value |-> 0, phase |-> "start"]>>]
         /\ UNCHANGED <<filename, full_review_data, results, displayed, signal,
                        after_queue, disk, cache, user_ops>>
         /\ UNCHANGED cacheFrame
         /\ UNCHANGED calcVars

\* lines 1323-1342, Analysis > Clear Results
clear_results ==
    /\ user_ops < MaxUserOps
    /\ user_ops' = user_ops + 1
    /\ results' = EmptyMap
    /\ btn_export' = "disabled"
    /\ full_review_data' = NoList
    /\ displayed' = EmptyMap
    /\ UNCHANGED <<filename, analysis_running, btn_open, btn_analyze, progress,
                   signal, thr, run_count, after_queue, disk, cache, delivered>>
    /\ UNCHANGED cacheFrame
    /\ UNCHANGED calcVars

\* the rows display_results inserts, in sorted order, before an entry without
\* the summary keys raises KeyError
RowsShown(rs) ==
    LET at(p) == CHOOSE i \in 1..Len(KeyOrder) : KeyOrder[i] = p
        ok(p) == SummaryKeys \subseteq DOMAIN rs[p]
    IN  [p \in {x \in DOMAIN rs : \A q \in DOMAIN rs : at(q) <= at(x) => ok(q)} |-> rs[p]]

\* a variant without the try/except: the exception goes on to open_file
load_cache_uncaught(doc, sig) ==
    IF doc = NoList
    THEN [results |-> EmptyMap, displayed |-> EmptyMap,
          btn_export |-> "disabled", signal |-> sig, raised |-> TRUE]
    ELSE LET rs == JsonLoad(doc[1])
         IN  IF Displayable(rs)
             THEN [results |-> rs, displayed |-> rs,
                   btn_export |-> "normal", signal |-> sig, raised |-> FALSE]
             ELSE [results |-> rs, displayed |-> RowsShown(rs),
                   btn_export |-> "disabled", signal |-> sig, raised |-> TRUE]

\* lines 806-817, called with the results cleared: doc is NoList when the file
\* cannot be read or is not JSON, and then open or json.load raises; raised
\* is whether an exception leaves load_cache
load_cache(doc, sig) ==
    IF doc = NoList
    THEN [results |-> EmptyMap, displayed |-> EmptyMap,
          btn_export |-> "disabled", signal |-> "cache_error", raised |-> FALSE]
    ELSE LET rs == JsonLoad(doc[1])
         IN  IF Displayable(rs)
             THEN [results |-> rs, displayed |-> rs,
                   btn_export |-> "normal", signal |-> sig, raised |-> FALSE]
             ELSE [results |-> rs, displayed |-> RowsShown(rs),
                   btn_export |-> "disabled", signal |-> "cache_error",
                   raised |-> FALSE]

\* lines 655-777; use_cache is the user's answer to the cache prompt
open_file(path, use_cache) ==
    /\ user_ops < MaxUserOps
    /\ user_ops' = user_ops + 1
    /\ IF ~disk[path].exists
       THEN \* the read raises: clear_results has run, the error is shown
            /\ results' = EmptyMap
            /\ btn_export' = "disabled"
            /\ full_review_data' = NoList
            /\ displayed' = EmptyMap
            /\ signal' = "open_error"
            /\ UNCHANGED <<filename, btn_analyze>>
       ELSE LET cache_file == get_cache_filename(path, disk[path].mtime)
                hit == cache_file \in DOMAIN cache /\ use_cache
                ui == IF hit
                      THEN load_cache(cache[cache_file], signal)
                      ELSE [results |-> EmptyMap, displayed |-> EmptyMap,
                            btn_export |-> "disabled", signal |-> signal,
                            raised |-> FALSE]
            IN  \* lines 773-777 for an exception out of lines 763-771
                /\ full_review_data' = IF ui.raised THEN NoList
                                       ELSE Some(disk[path].table)
                /\ btn_analyze' = "normal"
                /\ filename' = path
                /\ results' = ui.results
                /\ displayed' = ui.displayed
                /\ btn_export' = ui.btn_export
                /\ signal' = IF ui.raised THEN "open_error" ELSE ui.signal
    /\ UNCHANGED <<analysis_running, btn_open, progress, thr, run_count,
                   after_queue, disk, cache, delivered>>
    /\ UNCHANGED cacheFrame
    /\ UNCHANGED calcVars

\* what the callbacks write
UiState ==
    [progress |-> progress, delivered |-> delivered, displayed |-> displayed,
     btn_export |-> btn_export, btn_open |-> btn_open, btn_analyze |-> btn_analyze,
     signal |-> signal]

\* one callback.  The lambda of line 870 reads e, which is unbound once the
\* thread has left its except block: the box shows (shown) only if the
\* callback runs before that, otherwise the callback raises NameError.
ApplyCallback(ui, cb, shown) ==
    CASE cb.kind = "progress" ->
            [ui EXCEPT !.progress = cb.arg.value,
                       !.delivered[cb.run] = Append(@, cb.arg)]
      [] cb.kind = "display" -> [ui EXCEPT !.displayed = cb.arg]
      [] cb.kind = "export_normal" -> [ui EXCEPT !.btn_export = "normal"]
      [] cb.kind = "open_normal" -> [ui EXCEPT !.btn_open = "normal"]
      [] cb.kind = "analyze_cond" ->
            [ui EXCEPT !.btn_analyze = IF filename # None THEN "normal" ELSE "disabled"]
      [] cb.kind = "showerror" ->
            [ui EXCEPT !.signal = IF shown THEN "analysis_failed" ELSE @]

RECURSIVE ApplyCallbacks(_, _, _)
ApplyCallbacks(ui, queue, shown) ==
    IF queue = <<>> THEN ui
    ELSE The({ApplyCallbacks(next, Tail(queue), shown) :
                 next \in {ApplyCallback(ui, Head(queue), shown)}})

\* the main loop's timer event: every callback that is due runs, oldest first
RunCallbacks ==
    /\ after_queue # <<>>
    /\ after_queue' = <<>>
    /\ \E shown \in BOOLEAN :
          \E ui \in {ApplyCallbacks(UiState, after_queue, shown)} :
              /\ progress' = ui.progress
              /\ delivered' = ui.delivered
              /\ displayed' = ui.displayed
              /\ btn_export' = ui.btn_export
              /\ btn_open' = ui.btn_open
              /\ btn_analyze' = ui.btn_analyze
              /\ signal' = ui.signal
    /\ UNCHANGED <<filename, full_review_data, results, analysis_running, thr,
                   run_count, disk, cache, user_ops>>
    /\ UNCHANGED cacheFrame
    /\ UNCHANGED calcVars

\* the user moves a file away
RemoveFile(path) ==
    /\ disk[path].exists
    /\ user_ops < MaxUserOps
    /\ user_ops' = user_ops + 1
    /\ disk' = [disk EXCEPT ![path].exists = FALSE]
    /\ UNCHANGED <<filename, full_review_data, results, analysis_running,
                   btn_open, btn_analyze, btn_export, progress, displayed,
                   signal, thr, run_count, after_queue, cache, delivered>>
    /\ UNCHANGED cacheFrame
    /\ UNCHANGED calcVars

\* lines 1279-1321, File > Export Results; chosen is whether the user picks
\* a file name in the save dialog, a file outside the cache directory
save_results(chosen) ==
    /\ user_ops < MaxUserOps
    /\ user_ops' = user_ops + 1
    /\ signal' = IF results = EmptyMap THEN "no_results"
                 ELSE IF ~chosen THEN signal
                 ELSE IF Displayable(results) THEN "export_ok"
                 ELSE "export_error"
    /\ UNCHANGED <<filename, full_review_data, results, analysis_running,
                   btn_open, btn_analyze, btn_export, progress, displayed,
                   thr, run_count, after_queue, disk, cache, delivered>>
    /\ UNCHANGED cacheFrame
    /\ UNCHANGED calcVars

\* a variant that deletes the files without asking
clear_cache_unasked(confirm, kept) ==
    /\ user_ops < MaxUserOps
    /\ user_ops' = user_ops + 1
    /\ kept \subseteq DOMAIN cache
    /\ cache' = [n \in kept |-> cache[n]]
    /\ saved' = [n \in kept \cap DOMAIN saved |-> saved[n]]
    /\ signal' = "cache_cleared"
    /\ UNCHANGED <<filename, full_review_data, results, analysis_running,
                   btn_open, btn_analyze, btn_export, progress, displayed,
                   thr, run_count, after_queue, disk, delivered,
                   cache_writable, env_ops>>
    /\ UNCHANGED calcVars

\* lines 1344-1371, Tools > Clear Cache; confirm is the user's answer, kept
\* the files os.unlink fails on
clear_cache(confirm, kept) ==
    /\ user_ops < MaxUserOps
    /\ user_ops' = user_ops + 1
    /\ kept \subseteq DOMAIN cache
    /\ IF DOMAIN cache = {}
       THEN /\ signal' = "cache_empty"
            /\ UNCHANGED <<cache, saved>>
       ELSE IF ~confirm
       THEN UNCHANGED <<cache, saved, signal>>
       ELSE /\ cache' = [n \in kept |-> cache[n]]
            /\ saved' = [n \in kept \cap DOMAIN saved |-> saved[n]]
            /\ signal' = "cache_cleared"
    /\ UNCHANGED <<filename, full_review_data, results, analysis_running,
                   btn_open, btn_analyze, btn_export, progress, displayed,
                   thr, run_count, after_queue, disk, delivered,
                   cache_writable, env_ops>>
    /\ UNCHANGED calcVars

\* modification times a file is given from outside, tenths of a second
MTimes == {15, 20}

\* the file is written again from outside
TouchFile(path, mtime) ==
    /\ env_ops < MaxEnvOps
    /\ env_ops' = env_ops + 1
    /\ disk[path].exists
    /\ mtime > disk[path].mtime
    /\ disk' = [disk EXCEPT ![path].mtime = mtime]
    /\ UNCHANGED <<filename, full_review_data, results, analysis_running,
                   btn_open, btn_analyze, btn_export, progress, displayed,
                   signal, thr, run_count, after_queue, cache, delivered,
                   user_ops, cache_writable, saved>>
    /\ UNCHANGED calcVars

\* a JSON document whose entry of product p has lost its percentages
WithoutShares(doc, p) ==
    {IF m[1] = p THEN <<p, [f \in {"total"} |-> m[2][f]]>> ELSE m : m \in doc}

\* a cache file is damaged from outside: cut short (no JSON any more), or
\* replaced by a document of another layout
DamageCache(name, kind) ==
    /\ env_ops < MaxEnvOps
    /\ env_ops' = env_ops + 1
    /\ name \in DOMAIN cache
    /\ cache[name] # NoList
    /\ \/ /\ kind = "cut"
          /\ cache' = [cache EXCEPT ![name] = NoList]
       \/ /\ kind = "layout"
          /\ \E p \in {m[1] : m \in cache[name][1]} :
                cache' = [cache EXCEPT ![name] = Some(WithoutShares(cache[name][1], p))]
    /\ UNCHANGED <<filename, full_review_data, results, analysis_running,
                   btn_open, btn_analyze, btn_export, progress, displayed,
                   signal, thr, run_count, after_queue, disk, delivered,
                   user_ops, cache_writable, saved>>
    /\ UNCHANGED calcVars

\* the cache directory loses its write permission
LockCacheDir ==
    /\ env_ops < MaxEnvOps
    /\ env_ops' = env_ops + 1
    /\ cache_writable
    /\ cache_writable' = FALSE
    /\ UNCHANGED <<filename, full_review_data, results, analysis_running,
                   btn_open, btn_analyze, btn_export, progress, displayed,
                   signal, thr, run_count, after_queue, disk, cache, delivered,
                   user_ops, saved>>
    /\ UNCHANGED calcVars

-----------------------------------------------------------------------------
(* The application: the perform_analysis thread of run r *)

\* update_progress(value): root.after(0, lambda: self.progress.config(value=value))
update_progress(queue, r, value, phase) ==
    Append(queue, Callback("progress", r, [value |-> value, phase |-> phase]))

Goto(r, pc) == [thr EXCEPT ![r].pc = pc]

\* a variant in which a failing run still goes through the cache write
RaiseThenCache(r, err) == [thr EXCEPT ![r].pc = "cache", ![r].err = err]

\* raise: the thread continues in the except block of lines 868-871
Raise(r, err) == [thr EXCEPT ![r].pc = "except", ![r].err = err]

\* a variant in which the build goes on with what it has
SchemaErrorSkipped(r) == [thr EXCEPT ![r].pc = "loaded"]

\* raise ValueError("Could not identify 'review' or 'product' columns ...")
SchemaError(r) == Raise(r, "ValueError: columns")

threadFrame == <<filename, full_review_data, analysis_running, btn_open,
                 btn_analyze, btn_export, progress, displayed, signal,
                 run_count, disk, delivered, user_ops, cache_writable, env_ops>>

\* line 838
T_Check(r) ==
    /\ thr[r].pc = "check"
    /\ thr' = IF filename = None \/ ~disk[filename].exists
              THEN Raise(r, "FileNotFoundError")
              ELSE Goto(r, "choose")
    /\ UNCHANGED <<threadFrame, saved, results, after_queue, cache>>
    /\ UNCHANGED calcVars

\* line 842
T_Choose(r) ==
    /\ thr[r].pc = "choose"
    /\ thr' = IF full_review_data = NoList THEN Goto(r, "raw") ELSE Goto(r, "prepare")
    /\ UNCHANGED <<threadFrame, saved, results, after_queue, cache>>
    /\ UNCHANGED calcVars

\* lines 847, 878-920: _prepare_products_from_full_data
T_Prepare(r) ==
    /\ thr[r].pc = "prepare"
    /\ thr' = IF full_review_data = NoList
              THEN Raise(r, "ValueError: no data")
              ELSE IF ColumnsMissing(full_review_data[1].columns)
              THEN SchemaError(r)
              ELSE [thr EXCEPT ![r].pc = "loaded",
                               ![r].products =
                                   FilterMinReviews(GroupByProduct(full_review_data[1]))]
    /\ UNCHANGED <<threadFrame, saved, results, after_queue, cache>>
    /\ UNCHANGED calcVars

\* lines 844, 922-933 and 964-989: _read_file_for_analysis_raw up to the
\* first chunk, or all of it for a file of at most 100 MB
T_Raw(r) ==
    /\ thr[r].pc = "raw"
    /\ IF ~disk[filename].exists
       THEN /\ thr' = Raise(r, "FileNotFoundError")
            /\ after_queue' = after_queue
       ELSE IF disk[filename].size_mb > SIZE_THRESHOLD_MB
       THEN /\ thr' = [thr EXCEPT ![r].pc = "chunk", ![r].path = filename]
            /\ after_queue' = after_queue
       ELSE IF ColumnsMissing(disk[filename].table.columns)
       THEN /\ thr' = SchemaError(r)
            /\ after_queue' = after_queue
       ELSE /\ thr' = [thr EXCEPT ![r].pc = "loaded",
                                  ![r].products =
                                      FilterMinReviews(GroupByProduct(disk[filename].table))]
            /\ after_queue' = update_progress(after_queue, r, 4000, "ingest")
    /\ UNCHANGED <<threadFrame, saved, results, cache>>
    /\ UNCHANGED calcVars

\* lines 935-963: one chunk of the chunked read
T_Chunk(r) ==
    /\ thr[r].pc = "chunk"
    /\ LET table == disk[thr[r].path].table
           k     == thr[r].chunks + 1
           prods == The({RowLoop(rows, pcol, rcol, thr[r].products) :
                            rows \in {ChunkRows(table, k)},
                            pcol \in {ColumnIndex(table.columns, ProductColumn(table.columns))},
                            rcol \in {ColumnIndex(table.columns, ReviewColumn(table.columns))}})
       IN  IF ColumnsMissing(table.columns)
           THEN /\ thr' = SchemaError(r)
                /\ after_queue' = after_queue
           ELSE /\ thr' = [thr EXCEPT
                             ![r].pc = IF k = NumChunks(table) THEN "loaded" ELSE "chunk",
                             ![r].chunks = k,
                             ![r].products = IF k = NumChunks(table)
                                             THEN FilterMinReviews(prods) ELSE prods]
                /\ after_queue' =
                      update_progress(after_queue, r,
                                      ChunkProgress(k, TotalRows(table.rows)), "ingest")
    /\ UNCHANGED <<threadFrame, saved, results, cache>>
    /\ UNCHANGED calcVars

\* a variant that reports an empty corpus as it does unresolved columns
EmptyCorpusAsSchemaError(r) == SchemaError(r)

\* raise ValueError("No valid products found in the file for analysis.")
EmptyCorpusError(r) == Raise(r, "ValueError: no valid products")

\* lines 851-852
T_Loaded(r) ==
    /\ thr[r].pc = "loaded"
    /\ thr' = IF thr[r].products = <<>>
              THEN EmptyCorpusError(r)
              ELSE Goto(r, "score")
    /\ UNCHANGED <<threadFrame, saved, results, after_queue, cache>>
    /\ UNCHANGED calcVars

\* line 854: calculate_sentiments returns, its last act update_progress(100),
\* or a batch raises
T_Score(r) ==
    /\ thr[r].pc = "score"
    /\ \/ /\ results' = calculate_sentiments(thr[r].products, max_workers)
          /\ after_queue' = update_progress(after_queue, r, 10000, "score")
          /\ thr' = Goto(r, "cache")
       \/ /\ thr' = Raise(r, "scoring")
          /\ UNCHANGED <<results, after_queue>>
    /\ UNCHANGED <<threadFrame, saved, cache>>
    /\ UNCHANGED calcVars

\* a variant that lets the exception of a failed cache write leave the try
AfterCacheWriteRaising(r, written) ==
    IF written THEN Goto(r, "dispatch") ELSE Raise(r, "cache")

\* lines 860-861: except Exception prints a warning, the thread goes on
AfterCacheWrite(r, written) == Goto(r, "dispatch")

\* lines 856-861: the cache write; getmtime or open raising is only printed
T_Cache(r) ==
    /\ thr[r].pc = "cache"
    /\ IF disk[filename].exists /\ cache_writable
       THEN LET cache_file == get_cache_filename(filename, disk[filename].mtime)
            IN  /\ cache' = MapSet(cache, cache_file, Some(JsonDump(results)))
                /\ saved' = MapSet(saved, cache_file,
                                   [run |-> r, results |-> results, path |-> filename,
                                    mtime |-> disk[filename].mtime])
       ELSE UNCHANGED <<cache, saved>>
    /\ thr' = AfterCacheWrite(r, disk[filename].exists /\ cache_writable)
    /\ UNCHANGED <<threadFrame, results, after_queue>>
    /\ UNCHANGED calcVars

\* lines 863-866
T_Dispatch(r) ==
    /\ thr[r].pc = "dispatch"
    /\ after_queue' = after_queue \o <<Callback("display", r, results),
                                       Callback("export_normal", r, None)>>
    /\ thr' = Goto(r, "finally")
    /\ UNCHANGED <<threadFrame, saved, results, cache>>
    /\ UNCHANGED calcVars

\* a variant of the except block that drops the results of earlier runs
ResultsDroppedOnFailure(old) == EmptyMap

\* the except block does not assign self.results
ResultsAfterFailure(old) == old

\* lines 868-871
T_Except(r) ==
    /\ thr[r].pc = "except"
    /\ after_queue' = Append(after_queue, Callback("showerror", r, thr[r].err))
    /\ thr' = Goto(r, "finally")
    /\ results' = ResultsAfterFailure(results)
    /\ UNCHANGED <<threadFrame, saved, cache>>
    /\ UNCHANGED calcVars

\* a variant of the finally block that leaves the open button alone
FinallyCallbacksNoOpen(r) == <<Callback("analyze_cond", r, None)>>

\* lines 874-875
FinallyCallbacks(r) ==
    <<Callback("open_normal", r, None), Callback("analyze_cond", r, None)>>

\* lines 873-876
T_Finally(r) ==
    /\ thr[r].pc = "finally"
    /\ after_queue' = after_queue \o FinallyCallbacks(r)
    /\ analysis_running' = FALSE
    /\ thr' = [thr EXCEPT ![r] = [NoThread EXCEPT !.pc = "done", !.err = thr[r].err]]
    /\ UNCHANGED <<filename, full_review_data, results, btn_open, btn_analyze,
                   btn_export, progress, displayed, signal, run_count, disk,
                   cache, delivered, user_ops>>
    /\ UNCHANGED cacheFrame
    /\ UNCHANGED calcVars

ThreadStep(r) ==
    \/ T_Check(r)
    \/ T_Choose(r)
    \/ T_Prepare(r)
    \/ T_Raw(r)
    \/ T_Chunk(r)
    \/ T_Loaded(r)
    \/ T_Score(r)
    \/ T_Cache(r)
    \/ T_Dispatch(r)
    \/ T_Except(r)
    \/ T_Finally(r)

-----------------------------------------------------------------------------
(* The application as a whole *)

\* the pool of calculate_sentiments is not expanded here
CalcUnused ==
    /\ products = <<>>
    /\ max_workers = MaxWorkersOf(0)
    /\ product_list = <<>>
    /\ review_list = <<>>
    /\ futures = <<>>
    /\ future_result = <<>>
    /\ completed = <<>>
    /\ sentiment_scores = <<>>
    /\ agg = EmptyMap
    /\ calc_results = EmptyMap
    /\ calc_progress = <<>>
    /\ MemoUnused
    /\ calc_pc = "idle"

Init == Constructed /\ CalcUnused

Next ==
    \/ start_analysis
    \/ clear_results
    \/ \E path \in DOMAIN disk, use_cache \in BOOLEAN : open_file(path, use_cache)
    \/ RunCallbacks
    \/ \E path \in DOMAIN disk : RemoveFile(path)
    \/ \E r \in RunIds : ThreadStep(r)

Spec == Init /\ [][Next]_vars

\* the application among files whose cache names meet, with the cache
\* directory in the hands of the user and of other programs as well
InitCache == ConstructedOn(CachePaths) /\ CalcUnused

NextCache ==
    \/ Next
    \/ \E chosen \in BOOLEAN : save_results(chosen)
    \/ \E confirm \in BOOLEAN, kept \in SUBSET DOMAIN cache : clear_cache(confirm, kept)
    \/ \E path \in DOMAIN disk, mtime \in MTimes : TouchFile(path, mtime)
    \/ \E name \in DOMAIN cache, kind \in {"cut", "layout"} : DamageCache(name, kind)
    \/ LockCacheDir

SpecCache == InitCache /\ [][NextCache]_vars

\* the scheduler runs every started thread, and the main loop every callback
SpecFair ==
    /\ Spec
    /\ \A r \in RunIds : WF_vars(ThreadStep(r))
    /\ WF_vars(RunCallbacks)

-----------------------------------------------------------------------------
(* One run of perform_analysis on the files a user may have *)

\* rows of a file besides its long stretches of short reviews
MaxRows == 2

\* header rows, with the columns the product and review cells are put under
\* (0 for no column): the names the resolver knows, names it finds by
\* position, and headers it cannot resolve
BuildHeaders ==
    { [columns |-> <<"Product", "Review">>, pcol |-> 1, rcol |-> 2],
      [columns |-> <<"Title", "Review", "Rating", "Product">>, pcol |-> 4, rcol |-> 2],
      [columns |-> <<"Product Name", "TEXT">>, pcol |-> 1, rcol |-> 2],
      [columns |-> <<"Title", "Body", "Rating", "Item">>, pcol |-> 4, rcol |-> 2],
      [columns |-> <<"Title", "Body">>, pcol |-> 1, rcol |-> 2],
      [columns |-> <<"TEXT", "Product", "Review">>, pcol |-> 2, rcol |-> 3],
      [columns |-> <<"Item">>, pcol |-> 1, rcol |-> 0] }

ProductCells == {"Widget", " Widget ", "   ", NaN}

ReviewCells == {"great", " great ", "so-so", "   ", NaN}

CellsOf(h, product, review) ==
    [i \in 1..Len(h.columns) |->
        IF i = h.pcol THEN product ELSE IF i = h.rcol THEN review ELSE "-"]

\* up to MaxRows rows, and the same with a chunk's length of rows of a
\* 5-character review after the first
BuildRows(h) ==
    LET row    == {Run(CellsOf(h, p, r), 1) : p \in ProductCells, r \in ReviewCells}
        filler == Run(CellsOf(h, "Widget", "so-so"), CHUNK_SIZE)
        plain  == SeqsUpTo(row, MaxRows)
    IN  plain \cup {<<rows[1], filler>> \o Tail(rows) : rows \in {x \in plain : Len(x) > 1}}

BuildTables ==
    UNION {{[columns |-> h.columns, rows |-> rows] : rows \in BuildRows(h)} :
              h \in BuildHeaders}

\* the application after open_file has loaded the file, clear_results has or
\* has not dropped the table again, and start_analysis has started run 1
Started(path, table, size_mb, loaded) ==
    /\ filename = path
    /\ full_review_data = IF loaded THEN Some(table) ELSE NoList
    /\ results = EmptyMap
    /\ analysis_running = TRUE
    /\ btn_open = "disabled"
    /\ btn_analyze = "disabled"
    /\ btn_export = "disabled"
    /\ progress = 0
    /\ displayed = EmptyMap
    /\ signal = "none"
    /\ thr = [r \in RunIds |-> IF r = 1 THEN [NoThread EXCEPT !.pc = "check"] ELSE NoThread]
    /\ run_count = 1
    /\ after_queue = <<>>
    /\ disk = (path :> [exists |-> TRUE, mtime |-> 10, table |-> table, size_mb |-> size_mb])
    /\ cache = EmptyMap
    /\ delivered = [r \in RunIds |-> IF r = 1 THEN <<[value |-> 0, phase |-> "start"]>> ELSE <<>>]
    /\ user_ops = IF loaded THEN 1 ELSE 2
    /\ cache_writable = TRUE
    /\ env_ops = 0
    /\ saved = EmptyMap

InitBuild ==
    /\ \E table \in BuildTables, size_mb \in {0, 150}, loaded \in BOOLEAN :
          Started("/data/reviews.csv", table, size_mb, loaded)
    /\ CalcUnused

NextBuild ==
    \/ \E r \in RunIds : ThreadStep(r)
    \/ RunCallbacks

SpecBuild == InitBuild /\ [][NextBuild]_vars

-----------------------------------------------------------------------------
(* Properties of calculate_sentiments *)

ProductKeys(ps) == {ps[i].product : i \in 1..Len(ps)}

ReviewsOf(ps, p) == ps[CHOOSE i \in 1..Len(ps) : ps[i].product = p].reviews

HowMany(reviews, S) == Cardinality({i \in 1..Len(reviews) : reviews[i] \in S})

OutOfOrder == \E i \in 1..Len(completed) : completed[i] # i

\* C2: when calculate_sentiments returns, the ResultSet has exactly the
\* corpus's product keys and each product's total is the number of reviews the
\* corpus holds for it, whatever the order in which the batches completed.
C2_EachReviewOnce ==
    calc_pc = "returned" =>
        /\ DOMAIN calc_results = ProductKeys(products)
        /\ \A p \in ProductKeys(products) :
               calc_results[p].total = Len(ReviewsOf(products, p))

C2_Witness ==
    /\ calc_pc = "returned"
    /\ Len(products) = 2
    /\ Len(futures) = 3
    /\ OutOfOrder
    /\ \E k \in BatchIds :
          LET cs == ChunkSize(Len(review_list), max_workers)
          IN  k * cs < Len(review_list) /\ product_list[k * cs] # product_list[k * cs + 1]

ReferenceCounts(reviews) ==
    LET pos == {t \in Texts : Analyzer[t] > 5000000}
        neg == {t \in Texts : Analyzer[t] < -5000000}
    IN  [pos   |-> HowMany(reviews, pos),
         neg   |-> HowMany(reviews, neg),
         neu   |-> HowMany(reviews, Texts \ (pos \cup neg)),
         total |-> Len(reviews)]

\* C3: a collected batch's scores sit at the batch's own index; once the call
\* has returned, position i of the flattened scores is the score of
\* review_list[i], and the ResultSet is the one the corpus determines (each
\* product's summary of its own reviews' classes), the same for every order of
\* completion.
C3_ScoresAtBatchIndex ==
    LET cs == ChunkSize(Len(review_list), max_workers)
    IN  /\ \A k \in BatchIds :
               sentiment_scores[k] # NoList =>
                   /\ Len(sentiment_scores[k][1]) = Len(Batch(review_list, cs, k))
                   /\ \A i \in 1..Len(sentiment_scores[k][1]) :
                          sentiment_scores[k][1][i] = Analyzer[review_list[(k - 1) * cs + i]]
        /\ calc_pc = "returned" =>
               /\ Len(FlatScores(sentiment_scores)) = Len(review_list)
               /\ DOMAIN calc_results = ProductKeys(products)
               /\ \A p \in ProductKeys(products) :
                      calc_results[p] = Summary(ReferenceCounts(ReviewsOf(products, p)))

C3_Witness ==
    /\ calc_pc = "returned"
    /\ Len(futures) = 3
    /\ completed = <<3, 1, 2>>
    /\ review_list[1] # review_list[Len(review_list)]

ExpectedResults(ps) ==
    [p \in ProductKeys(ps) |-> Summary(ReferenceCounts(ReviewsOf(ps, p)))]

\* the products with a review in a batch that raised
Affected ==
    LET cs == ChunkSize(Len(review_list), max_workers)
    IN  {product_list[i] : i \in {j \in 1..Len(product_list) :
                                     ((j - 1) \div cs) + 1 \in Raised}}

\* C4: when a batch has raised, the call still returns a ResultSet with a
\* summary for every product of the corpus, and every product with no review
\* in the failed batch is summarised as in a run without failure.
C4_BatchFailureTolerated ==
    (Raised # {} /\ calc_pc \in {"returned", "raised"}) =>
        /\ calc_pc = "returned"
        /\ DOMAIN calc_results = ProductKeys(products)
        /\ \A p \in ProductKeys(products) \ Affected :
               calc_results[p] = ExpectedResults(products)[p]

\* C5: per product the aggregation counts every review once in total and once
\* in exactly one class: positive iff its compound is above 0.05, negative iff
\* below -0.05, neutral otherwise (0.05 and -0.05 themselves are neutral); the
\* sequential scorer gives the same summary.
C5_Thresholds ==
    calc_pc = "returned" =>
        \A p \in ProductKeys(products) :
            LET reviews == ReviewsOf(products, p)
                at(i) == Analyzer[reviews[i]]
                idx == 1..Len(reviews)
            IN  /\ agg[p].total = Len(reviews)
                /\ agg[p].pos = Cardinality({i \in idx : at(i) > 5000000})
                /\ agg[p].neg = Cardinality({i \in idx : at(i) < -5000000})
                /\ agg[p].neu = Cardinality({i \in idx : at(i) >= -5000000 /\ at(i) <= 5000000})
                /\ analyze_product(reviews, {}) = calc_results[p]

C5_Witness ==
    /\ calc_pc = "returned"
    /\ products = <<[product |-> "Widget", reviews |-> <<"edgeplus", "likeable", "edgeless">>]>>
    /\ agg["Widget"] = [pos |-> 1, neg |-> 0, neu |-> 2, total |-> 3]

\* r is num/den rounded to the nearest integer, a tie to the even one
IsRounded(r, num, den) ==
    /\ 2 * Abs(r * den - num) <= den
    /\ 2 * Abs(r * den - num) = den => r % 2 = 0

\* C6: a product with reviews is summarised as total = its review count, the
\* three shares = its class counts over total, times 100, rounded to 2
\* decimals, and compound = (pos - neg) / total rounded to 4 decimals, which
\* lies in [-1, 1]; counts 1, 1, 1 give 33.33 three times and compound 0.
C6_SummaryFormula ==
    calc_pc = "returned" =>
        \A p \in ProductKeys(products) :
            LET c == agg[p]
                r == calc_results[p]
            IN  /\ c.total > 0
                /\ r.total = Len(ReviewsOf(products, p))
                /\ r.total = c.total
                /\ IsRounded(r.pos, 10000 * c.pos, c.total)
                /\ IsRounded(r.neg, 10000 * c.neg, c.total)
                /\ IsRounded(r.neu, 10000 * c.neu, c.total)
                /\ IsRounded(r.compound, 10000 * (c.pos - c.neg), c.total)
                /\ r.compound >= -10000 /\ r.compound <= 10000
                /\ (c.pos = 1 /\ c.neg = 1 /\ c.neu = 1) =>
                       r = [pos |-> 3333, neg |-> 3333, neu |-> 3333, total |-> 3,
                            compound |-> 0]

C6_Witness ==
    /\ calc_pc = "returned"
    /\ products = <<[product |-> "Widget", reviews |-> <<"great", "terrible", "widget">>]>>
    /\ calc_results["Widget"].pos = 3333
    /\ calc_results["Widget"].compound = 0

\* C7: a summary with total > 0 has shares that add up to 100.00 give or take
\* 0.02 and class counts that add up to total; the summary of no reviews is 0
\* in every field.
C7_SharesSumTo100 ==
    /\ Summary(ZeroCounts) = [pos |-> 0, neg |-> 0, neu |-> 0, total |-> 0, compound |-> 0]
    /\ calc_pc = "returned" =>
           \A p \in DOMAIN calc_results :
               LET r == calc_results[p]
               IN  /\ r.total > 0 =>
                          /\ Abs(r.pos + r.neg + r.neu - 10000) <= 2
                          /\ agg[p].pos + agg[p].neg + agg[p].neu = r.total
                   /\ r.total = 0 =>
                          r.pos = 0 /\ r.neg = 0 /\ r.neu = 0 /\ r.compound = 0

C7_Witness ==
    /\ calc_pc = "returned"
    /\ \E p \in DOMAIN calc_results :
          /\ calc_results[p].total = 3
          /\ calc_results[p].pos + calc_results[p].neg + calc_results[p].neu = 9999

Reverse(s) == [i \in 1..Len(s) |-> s[Len(s) + 1 - i]]

RotateLeft(s) == IF s = <<>> THEN s ELSE Tail(s) \o <<s[1]>>

\* the corpus with the review list of its j-th product permuted
Shuffled(ps, j, how) ==
    [ps EXCEPT ![j].reviews = IF how = "reverse" THEN Reverse(@) ELSE RotateLeft(@)]

\* C8: permuting the review list of a product (reversing it, rotating it)
\* leaves every product's summary as it is.
C8_OrderIndependent ==
    calc_pc = "returned" =>
        \A j \in 1..Len(products), how \in {"reverse", "rotate"} :
            calculate_sentiments(Shuffled(products, j, how), max_workers) = calc_results

C8_Witness ==
    /\ calc_pc = "returned"
    /\ Len(futures) >= 2
    /\ \E j \in 1..Len(products) :
          /\ Reverse(products[j].reviews) # products[j].reviews
          /\ Len(products[j].reviews) > MIN_CHUNKSIZE

-----------------------------------------------------------------------------
(* Properties of the application *)

\* the runs whose perform_analysis thread has been started and has not ended
ActiveRuns == {r \in RunIds : thr[r].pc \notin {"idle", "done"}}

\* no thread is running and the main loop has nothing left to run
Quiescent == ActiveRuns = {} /\ after_queue = <<>>

\* C1: at most one analysis run is active at any time, and analysis_running
\* is true exactly while one is; a thread is started only when none is active;
\* and a start_analysis made while a run is active shows the 'already running'
\* message and changes nothing else: no thread, no progress, no button, no
\* results, no queued callback.
C1_SingleRun ==
    [][ /\ Cardinality(ActiveRuns') <= 1
        /\ analysis_running' <=> (ActiveRuns' # {})
        /\ run_count' # run_count => (~analysis_running /\ ActiveRuns = {})
        /\ (signal' = "already_running" /\ signal # "already_running") =>
              /\ analysis_running
              /\ UNCHANGED <<filename, full_review_data, results, analysis_running,
                             btn_open, btn_analyze, btn_export, progress,
                             displayed, thr, run_count, after_queue, disk,
                             cache, delivered>> ]_vars

\* a start was rejected while the first run is scoring
C1_Witness ==
    /\ signal = "already_running"
    /\ analysis_running
    /\ thr[1].pc = "score"
    /\ run_count = 1

\* C9 (as the claim states it): once a started run has ended and its
\* callbacks have run, analysis_running is false and the open and the analyze
\* button are both enabled.
C9_ButtonsReenabled ==
    (run_count > 0 /\ Quiescent) =>
        /\ ~analysis_running
        /\ btn_open = "normal"
        /\ btn_analyze = "normal"

\* C9 (amended): every started run ends, whatever its outcome, and when the
\* last run has ended and its callbacks have run analysis_running is false,
\* the open button is enabled, and the analyze button is enabled exactly when
\* a file name is set.
C9_RunsEndRerunnable ==
    /\ \A r \in RunIds : (r \in ActiveRuns) ~> (thr[r].pc = "done")
    /\ [](( run_count > 0 /\ Quiescent) =>
            /\ ~analysis_running
            /\ btn_open = "normal"
            /\ btn_analyze = (IF filename # None THEN "normal" ELSE "disabled"))

\* a run started from the menu with no file ever opened has failed and its
\* callbacks have run: the analyze button stays disabled, a new start is
\* accepted all the same
C9_Witness ==
    /\ Quiescent
    /\ thr[1].pc = "done"
    /\ thr[1].err = "FileNotFoundError"
    /\ filename = None
    /\ ~analysis_running
    /\ btn_open = "normal"
    /\ btn_analyze = "disabled"
    /\ ENABLED start_analysis

\* C10: the progress values of one run, in the order the bar received them,
\* never decrease and lie in [0, 100]; the first is the 0 of start_analysis,
\* a value reported by ingestion is at most 40, and the value reported by
\* scoring is 100 and is reported only once calculate_sentiments has returned.
C10_ProgressMonotone ==
    \A r \in RunIds :
        LET d == delivered[r]
        IN  /\ \A i \in 1..Len(d) : d[i].value >= 0 /\ d[i].value <= 10000
            /\ \A i \in 1..Len(d), j \in 1..Len(d) : i < j => d[i].value <= d[j].value
            /\ d # <<>> => d[1] = [value |-> 0, phase |-> "start"]
            /\ \A i \in 2..Len(d) : d[i].phase \in {"ingest", "score"}
            /\ \A i \in 1..Len(d) : d[i].phase = "ingest" => d[i].value <= 4000
            /\ \A i \in 1..Len(d) :
                  d[i].phase = "score" =>
                      /\ d[i].value = 10000
                      /\ thr[r].pc \in {"cache", "dispatch", "finally", "done"}
                      /\ thr[r].err = None

\* a chunked run of three chunks has reported 19, 33 and the capped 40, then 100
C10_Witness ==
    \E r \in RunIds :
        [i \in 1..Len(delivered[r]) |-> delivered[r][i].value]
            = <<0, 1900, 3300, 4000, 10000>>

-----------------------------------------------------------------------------
(* The result cache *)

\* the name the cache file of a source file has now
KeyOf(path) == get_cache_filename(path, disk[path].mtime)

\* the cache file is the one its last writer left
AsWritten(name) ==
    /\ name \in DOMAIN cache
    /\ name \in DOMAIN saved
    /\ cache[name] = Some(JsonDump(saved[name].results))

SameButDots(a, b) ==
    /\ Len(a) = Len(b)
    /\ \A i \in 1..Len(a) : a[i] = b[i] \/ {a[i], b[i]} \subseteq {".", "_"}

\* the name of a file's cache entry changes when its int(mtime) changes
KeyFollowsMtime ==
    [][\A p \in DOMAIN disk :
          IntOf(disk'[p].mtime) # IntOf(disk[p].mtime)
              => get_cache_filename(p, disk'[p].mtime) # KeyOf(p)]_vars

\* C12 as stated: two source files have the same cache entry name exactly
\* when they have the same base name and the same int(mtime), and a file gets a
\* different name once its int(mtime) changes.
C12_KeyIsBasenameAndMtime ==
    /\ [](\A p, q \in DOMAIN disk :
              KeyOf(p) = KeyOf(q)
                  <=> /\ basename[p] = basename[q]
                      /\ IntOf(disk[p].mtime) = IntOf(disk[q].mtime))
    /\ KeyFollowsMtime

\* C12: two source files have the same cache entry name exactly when their
\* base names are the same once every dot is read as an underscore and their
\* int(mtime) is the same, whatever their directories; a file gets a different
\* name once its int(mtime) changes.
C12_KeyIsUnderscoredBasenameAndMtime ==
    /\ [](\A p, q \in DOMAIN disk :
              KeyOf(p) = KeyOf(q)
                  <=> /\ SameButDots(basename[p], basename[q])
                      /\ IntOf(disk[p].mtime) = IntOf(disk[q].mtime))
    /\ KeyFollowsMtime

\* the file that is open was offered, and given, the results of a run on a
\* file of another base name, while a third file of that base name has a later
\* int(mtime) and so another cache name
C12_Witness ==
    /\ filename # None
    /\ disk[filename].exists
    /\ AsWritten(KeyOf(filename))
    /\ basename[saved[KeyOf(filename)].path] # basename[filename]
    /\ run_count = 1
    /\ results = saved[KeyOf(filename)].results
    /\ results # EmptyMap
    /\ \E p \in DOMAIN disk :
          /\ basename[p] = basename[saved[KeyOf(filename)].path]
          /\ IntOf(disk[p].mtime) # IntOf(disk[filename].mtime)
          /\ KeyOf(p) # KeyOf(filename)


\* the cache entries a run on the file of that path wrote and nothing has
\* touched since
EntriesOf(path) == {k \in DOMAIN saved : saved[k].path = path /\ AsWritten(k)}

\* C13: once a run on file F has saved its cache entry, opening F again finds
\* that entry under F's cache name as long as int(mtime) of F is what it was at
\* the save, and accepting it makes self.results the saved ResultSet without a
\* thread, the corpus builder or calculate_sentiments being started; once
\* int(mtime) of F has changed, F's cache name is no longer that of the entry.
C13_ReopenUsesCache ==
    /\ [](\A path \in DOMAIN disk : \A k \in EntriesOf(path) :
              KeyOf(path) = k <=> IntOf(disk[path].mtime) = IntOf(saved[k].mtime))
    /\ [][\A path \in DOMAIN disk : \A k \in EntriesOf(path) :
              (disk[path].exists /\ KeyOf(path) = k /\ open_file(path, TRUE))
                  => /\ results' = saved[k].results
                     /\ displayed' = saved[k].results
                     /\ thr' = thr
                     /\ run_count' = run_count
                     /\ after_queue' = after_queue
                     /\ UNCHANGED calcVars]_vars

\* F was written again within the same second after the run's save and then
\* opened again: the view shows the saved results although the run's own
\* display callback has not run yet
C13_Witness ==
    /\ filename # None
    /\ \E k \in EntriesOf(filename) :
          /\ KeyOf(filename) = k
          /\ disk[filename].mtime # saved[k].mtime
          /\ results = saved[k].results
          /\ results # EmptyMap
          /\ displayed = results
    /\ run_count = 1
    /\ thr[1].pc = "done"
    /\ \E i \in 1..Len(after_queue) : after_queue[i].kind = "display"


\* the thread of run r leaves the statement at pc in this step
Leaves(r, pc) == thr[r].pc = pc /\ thr'[r].pc # pc

\* the cache write at lines 856-859 cannot succeed now
WriteFails == filename = None \/ ~disk[filename].exists \/ ~cache_writable

\* C14: when the cache write at the end of a successful run fails (getmtime
\* of the source raises, or the cache file cannot be created), the thread
\* goes on to the dispatch with no error recorded and self.results untouched,
\* queues the display of self.results and the enabling of the export button,
\* and never queues the 'Analysis failed' box.
C14_CacheWriteFailureSwallowed ==
    /\ [][\A r \in RunIds :
              (Leaves(r, "cache") /\ WriteFails)
                  => /\ thr'[r].pc = "dispatch"
                     /\ thr'[r].err = None
                     /\ results' = results
                     /\ cache' = cache
                     /\ after_queue' = after_queue]_vars
    /\ [][\A r \in RunIds :
              Leaves(r, "dispatch")
                  => /\ thr'[r].pc = "finally"
                     /\ thr'[r].err = None
                     /\ after_queue' = after_queue \o
                            <<Callback("display", r, results),
                              Callback("export_normal", r, None)>>]_vars
    /\ [](\A r \in RunIds :
              thr[r].pc \in {"cache", "dispatch"} => thr[r].err = None)
    /\ [](\A i \in 1..Len(after_queue) :
              after_queue[i].kind = "showerror" => after_queue[i].arg # None)

\* the run on the only file opened has ended without an error, its results
\* are on display and can be exported, and the cache directory, locked before
\* the write, holds no entry
C14_Witness ==
    /\ run_count = 1
    /\ thr[1].pc = "done"
    /\ thr[1].err = None
    /\ ~cache_writable
    /\ user_ops = 1
    /\ cache = EmptyMap
    /\ results # EmptyMap
    /\ displayed = results
    /\ btn_export = "normal"
    /\ signal # "analysis_failed"
    /\ after_queue = <<>>


\* load_cache cannot read, parse or display the cache file of that name
LoadFails(name) ==
    /\ name \in DOMAIN cache
    /\ \/ cache[name] = NoList
       \/ ~Displayable(JsonLoad(cache[name][1]))

\* C15: when load_cache fails on the cache file of the file being opened
\* (not readable as JSON, or an entry without the summary keys), the failure
\* is reported in the 'Cache Error' box and goes no further: open_file ends
\* as after any other opening, with the table loaded, the file name set and
\* the analyze button enabled, analysis_running and the threads are as they
\* were, and with no run active a fresh analysis is accepted.
C15_LoadFailureRecoverable ==
    /\ [][\A path \in DOMAIN disk :
              (disk[path].exists /\ LoadFails(KeyOf(path)) /\ open_file(path, TRUE))
                  => /\ signal' = "cache_error"
                     /\ full_review_data' = Some(disk[path].table)
                     /\ filename' = path
                     /\ btn_analyze' = "normal"
                     /\ btn_export' = "disabled"
                     /\ analysis_running' = analysis_running
                     /\ thr' = thr
                     /\ cache' = cache]_vars
    /\ [][(signal = "cache_error" /\ ~analysis_running /\ start_analysis)
              => /\ analysis_running'
                 /\ thr'[run_count'].pc = "check"]_vars

\* after the cache file of the first run was damaged and failed to load, a
\* second run on the file opened has ended without an error and has written
\* the entry anew
C15_Witness ==
    /\ signal = "cache_error"
    /\ run_count = 2
    /\ thr[2].pc = "done"
    /\ thr[2].err = None
    /\ env_ops = 1
    /\ filename # None
    /\ disk[filename].exists
    /\ AsWritten(KeyOf(filename))
    /\ saved[KeyOf(filename)].run = 2
    /\ results = saved[KeyOf(filename)].results
    /\ results # EmptyMap


\* a step of the thread of some run
ThreadSteps == \E r \in RunIds : thr'[r] # thr[r]

\* C16: a run creates or replaces a cache file only in its cache write, which
\* it reaches only from the return of calculate_sentiments with the run's
\* ResultSet in self.results; a run that has failed (file missing, columns
\* not found, no valid products, exception while scoring) never gets there,
\* and none of its steps changes the cache.
C16_CacheOnlyOnSuccess ==
    /\ [][(ThreadSteps /\ cache' # cache)
              => \E r \in RunIds :
                    /\ Leaves(r, "cache")
                    /\ thr[r].err = None
                    /\ cache' = MapSet(cache, KeyOf(filename), Some(JsonDump(results)))]_vars
    /\ [][\A r \in RunIds :
              (thr'[r].pc = "cache" /\ thr[r].pc # "cache")
                  => /\ thr[r].pc = "score"
                     /\ thr[r].products # <<>>
                     /\ results' = calculate_sentiments(thr[r].products, max_workers)]_vars
    /\ [][\A r \in RunIds :
              (thr'[r] # thr[r] /\ thr'[r].err # None) => cache' = cache]_vars
    /\ [](\A k \in DOMAIN saved : thr[saved[k].run].err = None)

\* the first run has written a cache entry; the second, on a file without a
\* product column, has failed and the cache is as the first run left it
C16_Witness ==
    /\ run_count = 2
    /\ thr[1].pc = "done"
    /\ thr[1].err = None
    /\ thr[2].pc = "done"
    /\ thr[2].err = "ValueError: columns"
    /\ DOMAIN cache = DOMAIN saved
    /\ \E k \in DOMAIN saved :
          /\ DOMAIN saved = {k}
          /\ saved[k].run = 1
          /\ AsWritten(k)
          /\ saved[k].results # EmptyMap


\* the cache file of that name is gone or has other content after the step
EntryLost(name) == name \notin DOMAIN cache' \/ cache'[name] # cache[name]

\* C17: a cache file disappears or changes content only in the cache write of
\* a run that has not failed, to the name that write computes, or in a
\* clear_cache the user has confirmed (changes made from outside the
\* application aside); start_analysis, clear_results, open_file with
\* load_cache, save_results, the queued callbacks and a declined clear_cache
\* leave every cache file as it is.
C17_CacheFrame ==
    /\ [][\A name \in DOMAIN cache :
              EntryLost(name)
                  => \/ \E r \in RunIds :
                           /\ Leaves(r, "cache")
                           /\ thr[r].err = None
                           /\ name = KeyOf(filename)
                           /\ cache' = MapSet(cache, name, Some(JsonDump(results)))
                     \/ \E kept \in SUBSET DOMAIN cache : clear_cache(TRUE, kept)
                     \/ env_ops' # env_ops]_vars
    /\ [][(\/ start_analysis
           \/ clear_results
           \/ \E path \in DOMAIN disk, use_cache \in BOOLEAN : open_file(path, use_cache)
           \/ \E chosen \in BOOLEAN : save_results(chosen)
           \/ \E kept \in SUBSET DOMAIN cache : clear_cache(FALSE, kept)
           \/ RunCallbacks)
              => cache' = cache]_vars

\* the entry the run wrote is gone after a confirmed clear_cache
C17_Witness ==
    /\ signal = "cache_cleared"
    /\ cache = EmptyMap
    /\ user_ops = 2
    /\ env_ops = 0
    /\ run_count = 1
    /\ thr[1].pc = "done"
    /\ thr[1].err = None
    /\ filename # None
    /\ disk[filename].exists
    /\ results # EmptyMap


-----------------------------------------------------------------------------
(* The corpus builder *)

\* _find_column_name returns None for the review or for the product column
Unresolved(columns) == ReviewColumn(columns) = None \/ ProductColumn(columns) = None

\* the step ends the build of run r with the column error and nothing else
FailsOnColumns(r) ==
    /\ thr'[r].pc = "except"
    /\ thr'[r].err = "ValueError: columns"
    /\ after_queue' = after_queue
    /\ results' = results

\* C18: whenever the review or the product column of the table resolves to
\* None, the build ends with the column error and hands no corpus on: from
\* the loaded table, from the file read in one piece, and at whichever chunk
\* of the chunked read, whatever earlier chunks have collected; a run that
\* has raised is never again where a corpus is looked at or scored.
C18_UnresolvedColumnFailsBuild ==
    /\ [][\A r \in RunIds :
              /\ (Leaves(r, "prepare") /\ full_review_data # NoList
                    /\ Unresolved(full_review_data[1].columns))
                     => FailsOnColumns(r)
              /\ (Leaves(r, "raw") /\ disk[filename].exists
                    /\ disk[filename].size_mb <= SIZE_THRESHOLD_MB
                    /\ Unresolved(disk[filename].table.columns))
                     => FailsOnColumns(r)
              /\ (thr[r].pc = "chunk" /\ thr'[r] # thr[r]
                    /\ Unresolved(disk[thr[r].path].table.columns))
                     => FailsOnColumns(r)]_vars
    /\ [](\A r \in RunIds :
              thr[r].err # None => thr[r].pc \in {"except", "finally", "done"})

\* the chunked read of a file of more than 100 MB and more than one chunk,
\* whose header has no product column, has raised the column error
C18_Witness ==
    /\ thr[1].pc = "except"
    /\ thr[1].err = "ValueError: columns"
    /\ thr[1].path = filename
    /\ disk[filename].size_mb > SIZE_THRESHOLD_MB
    /\ NumChunks(disk[filename].table) > 1
    /\ ReviewColumn(disk[filename].table.columns) # None
    /\ ProductColumn(disk[filename].table.columns) = None
    /\ results = EmptyMap


\* C19: a build that returns a corpus without products ends the run with the
\* 'No valid products' error before calculate_sentiments is called: the
\* thread never stands at the call with an empty corpus, no step of a thread
\* replaces self.results except the return of that call, and the error is not
\* the one of unresolved columns, which a run gets exactly when the columns
\* of its table do not resolve.
C19_EmptyCorpusFailsBeforeScoring ==
    /\ [][\A r \in RunIds :
              (Leaves(r, "loaded") /\ thr[r].products = <<>>)
                  => /\ thr'[r].pc = "except"
                     /\ thr'[r].err = "ValueError: no valid products"
                     /\ thr'[r].err # "ValueError: columns"
                     /\ results' = results]_vars
    /\ [](\A r \in RunIds : thr[r].pc = "score" => thr[r].products # <<>>)
    /\ [][(ThreadSteps /\ results' # results)
              => \E r \in RunIds :
                    /\ Leaves(r, "score")
                    /\ thr[r].products # <<>>
                    /\ thr'[r].err = None]_vars
    /\ [](\A r \in RunIds :
              /\ thr[r].err = "ValueError: no valid products"
                    => ~ColumnsMissing(disk[filename].table.columns)
              /\ thr[r].err = "ValueError: columns"
                    => ColumnsMissing(disk[filename].table.columns))

\* the run on a file whose columns resolve and whose rows all have a short,
\* blank or missing review has ended with the 'No valid products' error, and
\* self.results and the cache are as they were
C19_Witness ==
    /\ thr[1].pc = "done"
    /\ thr[1].err = "ValueError: no valid products"
    /\ ~ColumnsMissing(disk[filename].table.columns)
    /\ TotalRows(disk[filename].table.rows) > CHUNK_SIZE
    /\ results = EmptyMap
    /\ cache = EmptyMap
    /\ ~analysis_running


\* the corpus the build of run r has returned
Returned(r) == thr[r].pc = "loaded"

\* the text is what strip() leaves of a review cell of the table, in a row
\* whose product cell reads as the key, stripped or not
FromTable(table, key, text) ==
    LET pcol == ColumnIndex(table.columns, ProductColumn(table.columns))
        rcol == ColumnIndex(table.columns, ReviewColumn(table.columns))
    IN  \E i \in 1..Len(table.rows) :
           /\ Strip(StrOf(table.rows[i].cells[rcol])) = text
           /\ key \in {StrOf(table.rows[i].cells[pcol]),
                       Strip(StrOf(table.rows[i].cells[pcol]))}

\* C20: in every corpus a build returns, from the loaded table, from the
\* file read in one piece or from the chunked read, every product has at
\* least one review, no product occurs twice, and every review is the
\* stripped text of a review cell of one of the product's rows and is longer
\* than 5 characters.
C20_CorpusWellFormed ==
    \A r \in RunIds :
        Returned(r) =>
            LET corpus == thr[r].products
            IN  \A i \in 1..Len(corpus) :
                   /\ corpus[i].reviews # <<>>
                   /\ \A j \in 1..Len(corpus) : corpus[j].product = corpus[i].product => j = i
                   /\ \A j \in 1..Len(corpus[i].reviews) :
                         LET text == corpus[i].reviews[j]
                         IN  /\ text # ""
                             /\ Strip(text) = text
                             /\ StrLen(text) > 5
                             /\ FromTable(disk[filename].table, corpus[i].product, text)

\* a build has returned a corpus with a review that stood in its cell with
\* blanks around it, from a table that also has a review of 5 characters
C20_Witness ==
    /\ Returned(1)
    /\ thr[1].products # <<>>
    /\ LET table == disk[filename].table
           rcol  == ColumnIndex(table.columns, ReviewColumn(table.columns))
       IN  /\ \E i \in 1..Len(table.rows) : table.rows[i].cells[rcol] = " great "
           /\ \E i \in 1..Len(table.rows) : table.rows[i].cells[rcol] = "so-so"
           /\ \A i \in 1..Len(table.rows) : table.rows[i].cells[rcol] # "great"
    /\ \E i \in 1..Len(thr[1].products) : thr[1].products[i].reviews = <<"great">>


\* the corpus lines 964-985 build of the table of a file read in one piece
InMemoryCorpus(table) == FilterMinReviews(GroupByProduct(table))

\* the build of run r went through the chunked read of lines 929-963
ReadInChunks(r) == thr[r].path # None

\* C21: the corpus the chunked read returns for a file is the corpus the read
\* in one piece builds of the same table: the same product keys and for each
\* key the same review texts in the same order, also when product or review
\* cells are missing or have blanks around them.
C21_PathsAgree ==
    \A r \in RunIds :
        (Returned(r) /\ ReadInChunks(r))
            => CorpusMap(thr[r].products) = CorpusMap(InMemoryCorpus(disk[filename].table))


\* the rows of the table with a product name and a review the builder keeps
QualifyingRows(table) ==
    LET pcol == ColumnIndex(table.columns, ProductColumn(table.columns))
        rcol == ColumnIndex(table.columns, ReviewColumn(table.columns))
    IN  {i \in 1..Len(table.rows) :
            /\ table.rows[i].cells[pcol] # NaN
            /\ Strip(StrOf(table.rows[i].cells[pcol])) # ""
            /\ table.rows[i].cells[rcol] # NaN
            /\ KeptReview(table.rows[i].cells[rcol]) # ""}

\* C22: every product key of a corpus a build returns, on whichever path, has
\* no blanks at its ends, and every row with a product name and a review that
\* is kept is found under its product name without the blanks around it, in
\* the case it is written in: names that differ in blanks only share a key,
\* names that differ in case do not.
C22_KeysTrimmed ==
    \A r \in RunIds :
        Returned(r) =>
            LET corpus == thr[r].products
                table  == disk[filename].table
                pcol   == ColumnIndex(table.columns, ProductColumn(table.columns))
            IN  /\ \A i \in 1..Len(corpus) :
                       /\ corpus[i].product # ""
                       /\ Strip(corpus[i].product) = corpus[i].product
                /\ \A j \in QualifyingRows(table) :
                       \E i \in 1..Len(corpus) :
                           corpus[i].product = Strip(StrOf(table.rows[j].cells[pcol]))


\* the synonyms and the fallback position (counted from 0) the callers of the
\* resolver pass for the four roles
Roles ==
    { [synonyms |-> <<"review title", "title">>, position |-> 0],
      [synonyms |-> <<"review", "review text", "text">>, position |-> 1],
      [synonyms |-> <<"star", "rating">>, position |-> 2],
      [synonyms |-> <<"product", "product name">>, position |-> 3] }

\* the places of the candidates that equal some header up to case
Matching(columns, candidates) ==
    {i \in 1..Len(candidates) :
        \E j \in 1..Len(columns) : Lower(columns[j]) = Lower(candidates[i])}

\* the resolver's answer is a header, as written, that equals up to case the
\* earliest candidate that matches a header, and None exactly when none does
PicksEarliestCandidate(columns, candidates) ==
    LET got  == find_column_name(columns, candidates)
        hits == Matching(columns, candidates)
    IN  /\ got = None <=> hits = {}
        /\ hits # {} =>
              /\ \E j \in 1..Len(columns) : columns[j] = got
              /\ Lower(got) = Lower(candidates[CHOOSE i \in hits : \A k \in hits : i <= k])

\* C23: for the header of every table a build runs on and the candidates of
\* every role, with and without the fallback, the resolver returns a header,
\* in its own case, that equals up to case the earliest candidate matching a
\* header, and None exactly when no candidate matches; with the header at the
\* fallback position as last candidate it returns None only if no synonym
\* matches and the header is too short for the position. A build returns a
\* corpus only with both columns resolved and raises the column error only
\* with one of them unresolved.
C23_ResolverPicksEarliestCandidate ==
    LET columns == disk[filename].table.columns
    IN  /\ \A role \in Roles :
               LET candidates == role.synonyms \o <<ColumnOrEmpty(columns, role.position)>>
               IN  /\ PicksEarliestCandidate(columns, role.synonyms)
                   /\ PicksEarliestCandidate(columns, candidates)
                   /\ find_column_name(columns, candidates) = None
                          => /\ Matching(columns, role.synonyms) = {}
                             /\ Len(columns) <= role.position
        /\ \A r \in RunIds :
               /\ Returned(r) =>
                      /\ ReviewColumn(columns) \in {columns[j] : j \in 1..Len(columns)}
                      /\ ProductColumn(columns) \in {columns[j] : j \in 1..Len(columns)}
               /\ thr[r].err = "ValueError: columns" => Unresolved(columns)

\* a build has returned the reviews of the column "Review", named by the first
\* candidate, of a table whose first header "TEXT" a later candidate names
C23_Witness ==
    /\ Returned(1)
    /\ disk[filename].table.columns = <<"TEXT", "Product", "Review">>
    /\ ReviewColumn(disk[filename].table.columns) = "Review"
    /\ ProductColumn(disk[filename].table.columns) = "Product"
    /\ \E i \in 1..Len(thr[1].products) : thr[1].products[i].reviews = <<"great">>


\* C24: while fewer than 10,000 texts are cached, in every interleaving of
\* the pool threads the analyzer scores each text at most once, and every
\* call of get_sentiment_score for a text returns the same score.
C24_AnalyzerOncePerText ==
    \A t \in Texts :
        /\ invoked[t] <= 1
        /\ Cardinality(returned[t]) <= 1


\* the batches have been submitted and no pool thread has taken one
JustSubmitted == calc_pc = "collect" /\ Pending = BatchIds /\ completed = <<>>

\* the reviews the corpus holds
CorpusSize(ps) == Len(FlattenReviews(ps))

\* C25: once calculate_sentiments has flattened the corpus and submitted its
\* batches, product_list and review_list both have the length n of the
\* corpus's reviews; every batch has at least one review, every batch but the
\* last has max(1000, n div (2w)) and the last has no more; batch k holds the
\* reviews from place (k-1) * size + 1 on, in order, and the sizes add up to
\* n, so that every place is in exactly one batch; for n = 0 there is no batch
\* and the call returns the empty ResultSet.
C25_BatchesPartitionReviews ==
    calc_pc # "call" =>
        LET n    == Len(review_list)
            size == Max2(MIN_CHUNKSIZE, n \div (2 * max_workers))
            nb   == Len(futures)
            len  == [k \in 1..nb |-> Len(MyBatch(k))]
        IN  /\ n = CorpusSize(products)
            /\ Len(product_list) = n
            /\ \A k \in 1..nb :
                   /\ len[k] >= 1
                   /\ len[k] <= size
                   /\ k < nb => len[k] = size
            /\ (IF nb = 0 THEN 0 ELSE (nb - 1) * size + len[nb]) = n
            /\ JustSubmitted =>
                   \A k \in 1..nb :
                       MyBatch(k) = [i \in 1..len[k] |-> review_list[(k - 1) * size + i]]
            /\ n = 0 =>
                   /\ nb = 0
                   /\ calc_pc = "returned" => calc_results = EmptyMap

\* a call with max_workers = 2 has returned the results of 4005 reviews, scored
\* in four batches of 1001 and a last batch of 1
C25_Witness ==
    /\ calc_pc = "returned"
    /\ max_workers = 2
    /\ Len(review_list) = HugeRun + 1
    /\ Len(futures) = 5
    /\ Len(MyBatch(1)) = MIN_CHUNKSIZE + 1
    /\ Len(MyBatch(5)) = 1
    /\ calc_results[ProductNames[1]].total = HugeRun + 1


\* the corpus lines 935-963 build of a table chunk after chunk
ChunkedCorpus(table) ==
    FilterMinReviews(
        RowLoop(table.rows,
                ColumnIndex(table.columns, ProductColumn(table.columns)),
                ColumnIndex(table.columns, ReviewColumn(table.columns)), <<>>))

\* the ResultSets a run on the file at path can compute: of the corpus of the
\* loaded table or of the file read in one piece, and of the corpus of
\* the chunked read
SourceResults(path) ==
    LET table == disk[path].table
    IN  IF ColumnsMissing(table.columns) THEN {}
        ELSE {calculate_sentiments(corpus, max_workers) :
                 corpus \in {c \in {InMemoryCorpus(table), ChunkedCorpus(table)} : c # <<>>}}

\* C26: a cache entry saved under the key of a source file holds results
\* computed from that file's reviews, also when open_file has changed
\* self.filename while the run that saved the entry was active: the results
\* of a run on one file are never saved under the key of the file opened
\* during the run.
C26_EntryHoldsResultsOfItsFile ==
    \A k \in DOMAIN saved : saved[k].results \in SourceResults(saved[k].path)


\* C27: from an accepted start_analysis to the end of the run no step changes
\* self.filename or self.full_review_data, which the run reads: the run builds
\* its corpus from the data present when it was started.
C27_InputOwnedByRun ==
    [][analysis_running =>
           /\ filename' = filename
           /\ full_review_data' = full_review_data]_vars

\* C28: whenever analysis_running is true the open button and the analyze
\* button are disabled; the callbacks a finishing run has queued do not enable
\* them while a later run is active.
C28_ButtonsDisabledWhileRunning ==
    analysis_running => (btn_open = "disabled" /\ btn_analyze = "disabled")


\* C29: a load_cache that fails, at reading the file, at parsing it or at
\* displaying an entry without the expected keys, leaves self.results as
\* open_file's clear_results has left it, empty, so that save_results then
\* reports that there are no results.
C29_FailedLoadLeavesResultsEmpty ==
    [][\A path \in DOMAIN disk :
           (disk[path].exists /\ LoadFails(KeyOf(path)) /\ open_file(path, TRUE))
               => results' = EmptyMap]_vars


\* the step is line 854 of run r returning the ResultSet of the run's corpus
AssignsResults(r) ==
    /\ thr[r].pc = "score"
    /\ thr'[r].pc = "cache"
    /\ results' = calculate_sentiments(thr[r].products, max_workers)

\* C30: a step of a run changes self.results only by assigning the complete
\* ResultSet calculate_sentiments has returned for the run's corpus; a run
\* that has assigned it does not fail afterwards, and a run that raises, at
\* the file test, at the columns, at the empty corpus or in scoring, leaves
\* self.results as it finds it up to the end of its finally block.
C30_FailedRunKeepsResults ==
    /\ [][ThreadSteps => (results' = results \/ \E r \in RunIds : AssignsResults(r))]_vars
    /\ [][\A r \in RunIds :
              /\ thr[r].pc \in {"cache", "dispatch"} => thr'[r].err = None
              /\ (thr'[r] # thr[r] /\ (thr[r].err # None \/ thr'[r].err # None))
                     => results' = results]_vars

\* a second run has failed in scoring and has ended, and self.results is still
\* the ResultSet of the first run
C30_Witness ==
    /\ thr[1].pc = "done"
    /\ thr[1].err = None
    /\ thr[2].pc = "done"
    /\ thr[2].err = "scoring"
    /\ user_ops = 1
    /\ results # EmptyMap
    /\ \E k \in DOMAIN saved : saved[k].run = 1 /\ saved[k].results = results

=============================================================================
